---- MODULE Spec2Model ----
(***************************************************************************)
(* Streaming JSON path engine of gpt-load (internal/jsonengine): the path  *)
(* grammar, the Aho-Corasick path matcher, the byte-level PathProcessor    *)
(* and PathEngine.Process with its reader, sink and processor pool.        *)
(*                                                                         *)
(* Bytes are one-character strings; byte slices and Go strings are         *)
(* sequences of them.  An optional value (a nil-able pointer or slice) is  *)
(* <<>> for nil and <<v>> otherwise.                                       *)
(***************************************************************************)
EXTENDS Integers, Sequences, FiniteSets, TLC

QUOTE == "\""
BACKSLASH == "\\"

None == <<>>
Some(v) == <<v>>

Min(a, b) == IF a < b THEN a ELSE b

(***************************************************************************)
(* Path grammar: internal/jsonengine/path.go                               *)
(***************************************************************************)
SegField == "SegField"
SegWildcard == "SegWildcard"
SegArrayAll == "SegArrayAll"
SegArrayIdx == "SegArrayIdx"

Segment(type, value, index) == [Type |-> type, Value |-> value, Index |-> index]

\* splitPath: one iteration of the loop over the bytes of the path.
splitPathStep(st, ch) ==
  CASE ch = "[" ->
         [parts |-> IF Len(st.current) > 0 THEN Append(st.parts, st.current) ELSE st.parts,
          current |-> <<ch>>, inBracket |-> TRUE]
    [] ch = "]" ->
         [parts |-> Append(st.parts, Append(st.current, ch)),
          current |-> <<>>, inBracket |-> FALSE]
    [] ch = "." ->
         IF st.inBracket
         THEN [st EXCEPT !.current = Append(@, ch)]
         ELSE [st EXCEPT !.parts = IF Len(st.current) > 0 THEN Append(@, st.current) ELSE @,
                         !.current = <<>>]
    [] OTHER -> [st EXCEPT !.current = Append(@, ch)]

RECURSIVE splitPathLoop(_, _, _)
splitPathLoop(path, i, st) ==
  IF i > Len(path) THEN st ELSE splitPathLoop(path, i + 1, splitPathStep(st, path[i]))

splitPath(path) ==
  LET st == splitPathLoop(path, 1, [parts |-> <<>>, current |-> <<>>, inBracket |-> FALSE])
  IN IF Len(st.current) > 0 THEN Append(st.parts, st.current) ELSE st.parts

Digits == <<"0", "1", "2", "3", "4", "5", "6", "7", "8", "9">>

IsDigit(ch) == \E d \in 1..10 : Digits[d] = ch
DigitVal(ch) == (CHOOSE d \in 1..10 : Digits[d] = ch) - 1

RECURSIVE atoiDigits(_, _, _)
atoiDigits(s, i, acc) ==
  IF i > Len(s) THEN acc ELSE atoiDigits(s, i + 1, acc * 10 + DigitVal(s[i]))

\* the digits of the largest int (2^63 - 1) and of the magnitude of the smallest
MaxIntDigits ==
  <<"9", "2", "2", "3", "3", "7", "2", "0", "3", "6", "8", "5", "4", "7", "7", "5", "8", "0", "7">>
MinIntDigits ==
  <<"9", "2", "2", "3", "3", "7", "2", "0", "3", "6", "8", "5", "4", "7", "7", "5", "8", "0", "8">>

RECURSIVE stripZeros(_)
stripZeros(s) == IF Len(s) > 1 /\ s[1] = "0" THEN stripZeros(Tail(s)) ELSE s

RECURSIVE digitsGreater(_, _)
\* whether the digit string a denotes a greater number than b of the same length
digitsGreater(a, b) ==
  IF a = <<>> THEN FALSE
  ELSE IF a[1] # b[1] THEN DigitVal(a[1]) > DigitVal(b[1])
  ELSE digitsGreater(Tail(a), Tail(b))

\* whether the digits denote a magnitude outside the range of int
outOfRange(body, negative) ==
  LET d == stripZeros(body)
  IN Len(d) > Len(MaxIntDigits)
     \/ (Len(d) = Len(MaxIntDigits)
         /\ digitsGreater(d, IF negative THEN MinIntDigits ELSE MaxIntDigits))

\* strconv.Atoi: an optional sign, then one or more base-10 digits denoting a
\* value in the range of int.
Atoi(s) ==
  LET signed == Len(s) > 0 /\ s[1] \in {"+", "-"}
      body == IF signed THEN SubSeq(s, 2, Len(s)) ELSE s
      negative == signed /\ s[1] = "-"
  IN IF Len(body) = 0 \/ \E i \in 1..Len(body) : ~IsDigit(body[i])
     THEN [ok |-> FALSE, n |-> 0]
     ELSE IF outOfRange(body, negative) THEN [ok |-> FALSE, n |-> 0]
     ELSE [ok |-> TRUE,
           n |-> IF negative THEN 0 - atoiDigits(body, 1, 0) ELSE atoiDigits(body, 1, 0)]

NoSegment == Segment(SegField, <<>>, 0)

\* A parseSegment without the wildcard case: "*" is taken as a field name.
parseSegmentStarField(s) ==
  IF s = <<>> THEN [err |-> "empty segment", seg |-> NoSegment]
  ELSE IF Len(s) >= 3 /\ s[1] = "[" /\ s[Len(s)] = "]"
  THEN LET inner == SubSeq(s, 2, Len(s) - 1)
           idx == Atoi(inner)
       IN IF inner = <<"*">> THEN [err |-> "", seg |-> Segment(SegArrayAll, s, 0)]
          ELSE IF ~idx.ok THEN [err |-> "invalid array index", seg |-> NoSegment]
          ELSE [err |-> "", seg |-> Segment(SegArrayIdx, s, idx.n)]
  ELSE [err |-> "", seg |-> Segment(SegField, s, 0)]

parseSegment(s) ==
  IF s = <<>> THEN [err |-> "empty segment", seg |-> NoSegment]
  ELSE IF s = <<"*">> THEN [err |-> "", seg |-> Segment(SegWildcard, s, 0)]
  ELSE IF Len(s) >= 3 /\ s[1] = "[" /\ s[Len(s)] = "]"
  THEN LET inner == SubSeq(s, 2, Len(s) - 1)
           idx == Atoi(inner)
       IN IF inner = <<"*">> THEN [err |-> "", seg |-> Segment(SegArrayAll, s, 0)]
          ELSE IF ~idx.ok THEN [err |-> "invalid array index", seg |-> NoSegment]
          ELSE [err |-> "", seg |-> Segment(SegArrayIdx, s, idx.n)]
  ELSE [err |-> "", seg |-> Segment(SegField, s, 0)]

RECURSIVE parsePathLoop(_, _, _)
parsePathLoop(parts, i, segments) ==
  IF i > Len(parts) THEN [err |-> "", segments |-> segments]
  ELSE LET r == parseSegment(parts[i])
       IN IF r.err # "" THEN [err |-> r.err, segments |-> <<>>]
          ELSE parsePathLoop(parts, i + 1, Append(segments, r.seg))

ParsePath(path) ==
  IF path = <<>> THEN [err |-> "", segments |-> <<>>]
  ELSE parsePathLoop(splitPath(path), 1, <<>>)

\* Segment.Match: whether one segment matches one step (object key or array index).
SegmentMatch(seg, key, isArray, arrayIdx) ==
  CASE seg.Type = SegField -> ~isArray /\ seg.Value = key
    [] seg.Type = SegWildcard -> ~isArray
    [] seg.Type = SegArrayAll -> isArray
    [] seg.Type = SegArrayIdx -> isArray /\ seg.Index = arrayIdx
    [] OTHER -> FALSE

(***************************************************************************)
(* Actions and rules: internal/jsonengine/rule.go, path.go                 *)
(***************************************************************************)
ActionSet == "set"
ActionAdd == "add"
ActionRemove == "remove"
NoAction == ""

PathRule(path, action, value, valueBytes) ==
  [Path |-> path, Action |-> action, Value |-> value, ValueBytes |-> valueBytes,
   segments |-> <<>>]

RuleAction(index, rule) ==
  [Index |-> index, Action |-> rule.Action, Value |-> rule.Value,
   ValueBytes |-> rule.ValueBytes]

(***************************************************************************)
(* Path matcher (Aho-Corasick over path segments): unnamed/part_002.       *)
(* A trie node is identified by the sequence of segment values leading to  *)
(* it from the root; the edge value "*" is the wildcard child, "[*]" the   *)
(* arrayAll child, and any other value an entry of the children map.       *)
(***************************************************************************)
Root == <<>>
WildcardValue == <<"*">>
ArrayAllValue == <<"[", "*", "]">>

\* itoa: base-10 rendering of an int.
RECURSIVE itoaDigits(_)
itoaDigits(n) ==
  IF n = 0 THEN <<>> ELSE Append(itoaDigits(n \div 10), Digits[(n % 10) + 1])

RECURSIVE itoa(_)
itoa(n) ==
  IF n = 0 THEN <<"0">>
  ELSE IF n < 0 THEN <<"-">> \o itoa(0 - n)
  ELSE itoaDigits(n)

\* NewPathMatcher: a root node without edges, outputs or failure link.
NewPathMatcher ==
  [nodes |-> {Root}, output |-> [n \in {Root} |-> <<>>],
   fail |-> [n \in {Root} |-> None], rules |-> <<>>]

\* ACNode.children[key]
HasChild(m, n, key) ==
  key # WildcardValue /\ key # ArrayAllValue /\ Append(n, key) \in m.nodes
\* ACNode.wildcard # nil, ACNode.arrayAll # nil
HasWildcard(m, n) == Append(n, WildcardValue) \in m.nodes
HasArrayAll(m, n) == Append(n, ArrayAllValue) \in m.nodes
\* the entries of ACNode.children
ChildKeys(m, n) ==
  {c[Len(c)] : c \in {x \in m.nodes : Len(x) = Len(n) + 1 /\ SubSeq(x, 1, Len(n)) = n
                                      /\ x[Len(x)] # WildcardValue /\ x[Len(x)] # ArrayAllValue}}

\* ACNode.getOrCreate: the child reached by a segment (created when absent).
getOrCreate(n, seg) == Append(n, seg.Value)

\* PathMatcher.AddRule: parse the path, append the rule, insert its trie path and
\* append the rule's action to the output of the last node.
MatcherAddRule(m, rule) ==
  LET ruleIdx == Len(m.rules)
      RECURSIVE walk(_, _, _)
      walk(segs, node, i) ==
        IF i > Len(segs) THEN node ELSE walk(segs, getOrCreate(node, segs[i]), i + 1)
      \* the matcher with the rule `stored` appended and the trie path to `last` inserted
      insert(stored, last, nodes2) ==
        [nodes |-> nodes2,
         output |-> [n \in nodes2 |->
                       (IF n \in m.nodes THEN m.output[n] ELSE <<>>)
                       \o (IF n = last THEN <<RuleAction(ruleIdx, stored)>> ELSE <<>>)],
         fail |-> [n \in nodes2 |-> IF n \in m.nodes THEN m.fail[n] ELSE None],
         rules |-> Append(m.rules, stored)]
      to(stored, last) ==
        insert(stored, last, m.nodes \cup {SubSeq(last, 1, k) : k \in 0..Len(last)})
      add(parsed) ==
        IF parsed.err # "" THEN [err |-> parsed.err, m |-> m]
        ELSE [err |-> "",
              m |-> to([rule EXCEPT !.segments = parsed.segments],
                       walk(parsed.segments, Root, 1))]
  IN add(ParsePath(rule.Path))

\* findFailNode: follow the failure chain for a literal child key.
RECURSIVE findFailNode(_, _, _, _, _)
findFailNode(m, fail, key, isArray, arrayIdx) ==
  IF fail = None THEN Root
  ELSE IF HasChild(m, fail[1], key) THEN Append(fail[1], key)
  ELSE IF ~isArray /\ HasWildcard(m, fail[1]) THEN Append(fail[1], WildcardValue)
  ELSE IF isArray /\ HasArrayAll(m, fail[1]) THEN Append(fail[1], ArrayAllValue)
  ELSE findFailNode(m, m.fail[fail[1]], key, isArray, arrayIdx)

RECURSIVE findFailNodeWildcard(_, _)
findFailNodeWildcard(m, fail) ==
  IF fail = None THEN Root
  ELSE IF HasWildcard(m, fail[1]) THEN Append(fail[1], WildcardValue)
  ELSE findFailNodeWildcard(m, m.fail[fail[1]])

RECURSIVE findFailNodeArrayAll(_, _)
findFailNodeArrayAll(m, fail) ==
  IF fail = None THEN Root
  ELSE IF HasArrayAll(m, fail[1]) THEN Append(fail[1], ArrayAllValue)
  ELSE findFailNodeArrayAll(m, m.fail[fail[1]])

\* Build, one BFS level: the nodes of depth d get their failure link (the root
\* for depth 1) and, below depth 1, the outputs of their failure node appended.
\* The BFS dequeues nodes in order of depth, and a failure node is shallower
\* than the node it belongs to, so a level reads only finished levels.
BuildLevel(m, d) ==
  LET level == {n \in m.nodes : Len(n) = d}
      failOf(n) ==
        LET parent == SubSeq(n, 1, Len(n) - 1)
            key == n[Len(n)]
        IN IF d = 1 THEN Root
           ELSE IF key = WildcardValue THEN findFailNodeWildcard(m, m.fail[parent])
           ELSE IF key = ArrayAllValue THEN findFailNodeArrayAll(m, m.fail[parent])
           ELSE findFailNode(m, m.fail[parent], key, FALSE, 0)
  IN [m EXCEPT
        !.fail = [n \in m.nodes |-> IF n \in level THEN Some(failOf(n)) ELSE m.fail[n]],
        !.output = [n \in m.nodes |->
                      IF n \in level /\ d > 1 THEN m.output[n] \o m.output[failOf(n)]
                      ELSE m.output[n]]]

RECURSIVE buildFrom(_, _)
buildFrom(m, d) ==
  IF \A n \in m.nodes : Len(n) < d THEN m ELSE buildFrom(BuildLevel(m, d), d + 1)

\* PathMatcher.Build
Build(m) == buildFrom(m, 1)

\* PathMatcher.Match: next state and actions for one step from `state`.
RECURSIVE matchFrom(_, _, _, _, _)
matchFrom(m, node, key, isArray, arrayIdx) ==
  IF node = None THEN [node |-> Root, actions |-> <<>>]
  ELSE LET n == node[1]
           idxKey == <<"[">> \o itoa(arrayIdx) \o <<"]">>
           next == IF isArray
                   THEN IF HasChild(m, n, idxKey) THEN Some(Append(n, idxKey))
                        ELSE IF HasArrayAll(m, n) THEN Some(Append(n, ArrayAllValue))
                        ELSE None
                   ELSE IF HasChild(m, n, key) THEN Some(Append(n, key))
                        ELSE IF HasWildcard(m, n) THEN Some(Append(n, WildcardValue))
                        ELSE None
       IN IF next # None THEN [node |-> next[1], actions |-> m.output[next[1]]]
          ELSE IF n = Root THEN [node |-> Root, actions |-> <<>>]
          ELSE matchFrom(m, m.fail[n], key, isArray, arrayIdx)

Match(m, state, key, isArray, arrayIdx) ==
  matchFrom(m, IF state = None THEN Some(Root) ELSE state, key, isArray, arrayIdx)

\* PathMatcher.HasRules
HasRules(m) == Len(m.rules) > 0

\* BuildMatcher: AddRule for each rule, then Build.
RECURSIVE addRules(_, _, _)
addRules(m, rules, i) ==
  IF i > Len(rules) THEN [err |-> "", m |-> m]
  ELSE LET next(r) == IF r.err # "" THEN [err |-> r.err, m |-> NewPathMatcher]
                       ELSE addRules(r.m, rules, i + 1)
       IN next(MatcherAddRule(m, rules[i]))

BuildMatcher(rules) ==
  LET build(r) == IF r.err # "" THEN r ELSE [err |-> "", m |-> Build(r.m)]
  IN build(addRules(NewPathMatcher, rules, 1))

(***************************************************************************)
(* Structural scanner: internal/jsonengine/simd_amd64.go, simd_other.go    *)
(***************************************************************************)
isStructural(b) == b \in {QUOTE, "{", "}", "[", "]", ":", ","}

\* scanGeneric: ascending 0-based offsets of the structural bytes, at most
\* `capacity` of them.
RECURSIVE scanGenericLoop(_, _, _, _)
scanGenericLoop(data, i, capacity, positions) ==
  IF i > Len(data) THEN positions
  ELSE IF isStructural(data[i]) /\ Len(positions) < capacity
       THEN scanGenericLoop(data, i + 1, capacity, Append(positions, i - 1))
       ELSE scanGenericLoop(data, i + 1, capacity, positions)

scanGeneric(data, capacity) == scanGenericLoop(data, 1, capacity, <<>>)

ScanStructural(data, capacity) ==
  IF Len(data) = 0 THEN <<>> ELSE scanGeneric(data, capacity)

(***************************************************************************)
(* Output sink (io.Writer).  A sink with limit n >= 0 accepts n Write      *)
(* calls and fails every later one, writing nothing; limit -1 never fails. *)
(***************************************************************************)
NewWriter(limit) == [buf |-> <<>>, calls |-> 0, limit |-> limit, failed |-> FALSE]

SinkWrite(w, bytes) ==
  IF w.limit >= 0 /\ w.calls >= w.limit
  THEN [w EXCEPT !.failed = TRUE]
  ELSE [w EXCEPT !.buf = @ \o bytes, !.calls = IF w.limit >= 0 THEN @ + 1 ELSE @]

(***************************************************************************)
(* PathProcessor: internal/jsonengine/path_processor.go.                   *)
(* A configuration c holds the processor p, the sink w it writes to and    *)
(* the history g: g.at is the document path of the node the input byte     *)
(* being handled belongs to, g.fired the rule firings so far with the      *)
(* document path each fired at, g.queued the Add fields queued so far with  *)
(* the path of the object at whose `{` each was queued and its place in    *)
(* the queue, g.emitted the fields injected so far, in order, with the     *)
(* path of the object at whose `}` each was written, g.events the number of *)
(* bytes handed to handleStructural.  g is never read by the processor.    *)
(***************************************************************************)
DefaultPositionsCap == 131072

ZeroSkipState == [depth |-> 0, inString |-> FALSE, escaped |-> FALSE]

pathEntry(isArray, arrayIdx, acNode) ==
  [isArray |-> isArray, arrayIdx |-> arrayIdx, acNode |-> acNode]

addAction(key, value) == [key |-> key, value |-> value]

\* PathProcessorPool.New
NewPathProcessor ==
  [matcherSet |-> FALSE, positionsCap |-> DefaultPositionsCap,
   pathStack |-> <<>>, inString |-> FALSE, escaped |-> FALSE, expectKey |-> FALSE,
   skipping |-> FALSE, skipState |-> ZeroSkipState, pendingComma |-> FALSE,
   keyBuffer |-> <<>>, inKey |-> FALSE, firstField |-> FALSE, lastMatchNode |-> None,
   setValue |-> None, pendingAdds |-> <<>>, hasAddRules |-> FALSE]

\* A Reset that leaves the skipping mode and the pending Set value as they are.
ResetKeepSkip(p) ==
  [p EXCEPT !.pathStack = <<>>, !.inString = FALSE, !.escaped = FALSE,
            !.expectKey = FALSE, !.pendingComma = FALSE, !.keyBuffer = <<>>, !.inKey = FALSE,
            !.firstField = TRUE, !.lastMatchNode = None,
            !.pendingAdds = <<>>]

\* PathProcessor.Reset
Reset(p) ==
  [p EXCEPT !.pathStack = <<>>, !.inString = FALSE, !.escaped = FALSE,
            !.expectKey = FALSE, !.skipping = FALSE, !.skipState = ZeroSkipState,
            !.pendingComma = FALSE, !.keyBuffer = <<>>, !.inKey = FALSE,
            !.firstField = TRUE, !.lastMatchNode = None, !.setValue = None,
            !.pendingAdds = <<>>]

\* g.fed counts the bytes passed to ProcessChunk so far, g.split tells whether
\* they came in more than one chunk.
NoGhost ==
  [at |-> <<>>, fired |-> {}, fed |-> 0, split |-> FALSE, queued |-> {}, emitted |-> <<>>,
   events |-> 0]

\* an Add field in the history: the k-th entry of the queue of its depth
Injection(add, k, depth, at) ==
  [key |-> add.key, value |-> add.value, k |-> k, depth |-> depth, at |-> at]

\* c.rangeDesc stands for the order in which the Go runtime ranges over a map
\* (unspecified by the language): ascending or descending key order.
Config(p, w, rangeDesc) == [p |-> p, w |-> w, g |-> NoGhost, rangeDesc |-> rangeDesc]

\* w.Write(bytes); the processor ignores the returned error.
Write(c, bytes) == [c EXCEPT !.w = SinkWrite(@, bytes)]

Top(c) == c.p.pathStack[Len(c.p.pathStack)]

\* marshalValue: nil, bool, int and string values.
marshalString(s) ==
  LET RECURSIVE esc(_)
      esc(i) == IF i > Len(s) THEN <<>>
                ELSE (IF s[i] = QUOTE THEN <<BACKSLASH, QUOTE>>
                      ELSE IF s[i] = BACKSLASH THEN <<BACKSLASH, BACKSLASH>>
                      ELSE <<s[i]>>) \o esc(i + 1)
  IN <<QUOTE>> \o esc(1) \o <<QUOTE>>

marshalValue(v) ==
  CASE v.kind = "nil" -> <<"n", "u", "l", "l">>
    [] v.kind = "string" -> marshalString(v.s)
    [] v.kind = "bool" -> IF v.n = 1 THEN <<"t", "r", "u", "e">> ELSE <<"f", "a", "l", "s", "e">>
    [] v.kind = "int" -> itoa(v.n)

\* the payload of an action: ValueBytes when present, else the marshalled Value
payloadOf(action) ==
  IF Len(action.ValueBytes) > 0 THEN action.ValueBytes ELSE marshalValue(action.Value)

\* handleContent, skip branch: the loop over the bytes of the content.
RECURSIVE skipContent(_, _, _)
skipContent(sk, content, i) ==
  IF i > Len(content) THEN sk
  ELSE IF sk.escaped THEN skipContent([sk EXCEPT !.escaped = FALSE], content, i + 1)
  ELSE IF sk.inString /\ content[i] = BACKSLASH
       THEN skipContent([sk EXCEPT !.escaped = TRUE], content, i + 1)
  ELSE skipContent(sk, content, i + 1)

\* A handleContent that does not look for backslashes in skip mode.
handleContentNoEscape(c, content) ==
  IF Len(content) = 0 THEN c
  ELSE IF c.p.skipping THEN c
  ELSE IF c.p.inKey THEN [c EXCEPT !.p.keyBuffer = @ \o content]
  ELSE Write(c, content)

handleContent(c, content) ==
  IF Len(content) = 0 THEN c
  ELSE IF c.p.skipping THEN [c EXCEPT !.p.skipState = skipContent(@, content, 1)]
  ELSE IF c.p.inKey THEN [c EXCEPT !.p.keyBuffer = @ \o content]
  ELSE Write(c, content)

extractKey(buf) == IF Len(buf) < 2 THEN <<>> ELSE SubSeq(buf, 2, Len(buf) - 1)

\* currentACNode
currentACNode(c) ==
  IF ~c.p.matcherSet THEN None
  ELSE IF Len(c.p.pathStack) > 0 THEN Top(c).acNode
  ELSE Some(Root)

\* The first Remove or Set action of an action list (the loops of checkKeyMatch
\* and checkArrayElementMatch), or 0 when it holds none.
firstRemoveOrSet(actions) ==
  IF \E i \in 1..Len(actions) : actions[i].Action \in {ActionRemove, ActionSet}
  THEN CHOOSE i \in 1..Len(actions) :
         /\ actions[i].Action \in {ActionRemove, ActionSet}
         /\ \A j \in 1..(i - 1) : actions[j].Action \notin {ActionRemove, ActionSet}
  ELSE 0

Fired(c, action) ==
  [c EXCEPT !.g.fired = @ \cup {[rule |-> action.Index, action |-> action.Action, at |-> c.g.at]}]

\* checkKeyMatch: match the key from the node of the open container, keep the
\* resulting node for a child container, and return the first Remove/Set action.
checkKeyMatch(c, m, key) ==
  IF ~c.p.matcherSet THEN [c |-> c, action |-> NoAction]
  ELSE LET currentNode == IF Len(c.p.pathStack) > 0 THEN Top(c).acNode ELSE Some(Root)
           apply(c1, actions, i) ==
             IF i = 0 THEN [c |-> c1, action |-> NoAction]
             ELSE IF actions[i].Action = ActionRemove
             THEN [c |-> Fired([c1 EXCEPT !.p.setValue = None], actions[i]),
                   action |-> ActionRemove]
             ELSE [c |-> Fired([c1 EXCEPT !.p.setValue = Some(payloadOf(actions[i]))],
                               actions[i]),
                   action |-> ActionSet]
           matched(r) ==
             apply([c EXCEPT !.p.lastMatchNode = Some(r.node)], r.actions,
                   firstRemoveOrSet(r.actions))
       IN matched(Match(m, currentNode, key, FALSE, 0))

\* checkArrayElementMatch: match the element at the top frame's arrayIdx.
checkArrayElementMatch(c, m) ==
  IF ~c.p.matcherSet \/ Len(c.p.pathStack) = 0 THEN c
  ELSE IF ~Top(c).isArray THEN c
  ELSE LET parentNode == IF Top(c).acNode = None THEN Some(Root) ELSE Top(c).acNode
           apply(c1, actions, i) ==
             IF i = 0 THEN c1
             ELSE IF actions[i].Action = ActionRemove
             THEN Fired([c1 EXCEPT !.p.skipping = TRUE, !.p.skipState = ZeroSkipState,
                                   !.p.setValue = None], actions[i])
             ELSE Fired([c1 EXCEPT !.p.setValue = Some(payloadOf(actions[i])),
                                   !.p.skipping = TRUE, !.p.skipState = ZeroSkipState],
                        actions[i])
           matched(r) ==
             apply([c EXCEPT !.p.lastMatchNode = Some(r.node)], r.actions,
                   firstRemoveOrSet(r.actions))
       IN matched(Match(m, parentNode, <<>>, TRUE, Top(c).arrayIdx))

\* finishSkipValue: leave skip mode, emit the pending Set value, expect a key
\* when the open container is an object.
finishSkipValue(c) ==
  LET c1 == [c EXCEPT !.p.skipping = FALSE, !.p.skipState = ZeroSkipState]
      c2 == IF c1.p.setValue # None
            THEN [Write(c1, c1.p.setValue[1]) EXCEPT !.p.setValue = None]
            ELSE c1
  IN IF Len(c2.p.pathStack) > 0 /\ ~Top(c2).isArray
     THEN [c2 EXCEPT !.p.expectKey = TRUE]
     ELSE c2

\* handleSkipChar: one structural byte in skip mode; reprocess tells the caller
\* to handle the byte again as a normal structural byte.
handleSkipChar(c, char) ==
  LET sk == c.p.skipState
  IN IF sk.escaped
     THEN [c |-> [c EXCEPT !.p.skipState.escaped = FALSE], reprocess |-> FALSE]
     ELSE IF sk.inString
     THEN [c |-> CASE char = BACKSLASH -> [c EXCEPT !.p.skipState.escaped = TRUE]
                   [] char = QUOTE ->
                        LET c1 == [c EXCEPT !.p.skipState.inString = FALSE]
                        IN IF sk.depth = 0 THEN finishSkipValue(c1) ELSE c1
                   [] OTHER -> c,
           reprocess |-> FALSE]
     ELSE CASE char = QUOTE ->
                 [c |-> [c EXCEPT !.p.skipState.inString = TRUE], reprocess |-> FALSE]
            [] char \in {"{", "["} ->
                 [c |-> [c EXCEPT !.p.skipState.depth = @ + 1], reprocess |-> FALSE]
            [] char \in {"}", "]"} ->
                 IF sk.depth > 0
                 THEN LET c1 == [c EXCEPT !.p.skipState.depth = @ - 1]
                      IN [c |-> IF sk.depth - 1 = 0 THEN finishSkipValue(c1) ELSE c1,
                          reprocess |-> FALSE]
                 ELSE [c |-> finishSkipValue(c), reprocess |-> TRUE]
            [] char = "," ->
                 IF sk.depth = 0
                 THEN [c |-> finishSkipValue(c), reprocess |-> c.p.setValue # None]
                 ELSE [c |-> c, reprocess |-> FALSE]
            [] OTHER -> [c |-> c, reprocess |-> FALSE]

RECURSIVE SetToSeq(_)
SetToSeq(S) ==
  IF S = {} THEN <<>>
  ELSE LET x == CHOOSE y \in S : TRUE IN <<x>> \o SetToSeq(S \ {x})

Reverse(s) == [i \in 1..Len(s) |-> s[Len(s) + 1 - i]]

\* `for key, childNode := range acNode.children`
RangeChildren(c, m, n) ==
  IF c.rangeDesc THEN Reverse(SetToSeq(ChildKeys(m, n))) ELSE SetToSeq(ChildKeys(m, n))

\* registerPendingAdds, inner loop: the Add actions of one child whose rule
\* has as many segments as the current depth plus one.
addsOfChild(m, key, output, depth) ==
  LET RECURSIVE collect(_)
      collect(i) ==
        IF i > Len(output) THEN <<>>
        ELSE (IF output[i].Action = ActionAdd
                 /\ depth = Len(m.rules[output[i].Index + 1].segments) - 1
              THEN <<addAction(key, payloadOf(output[i]))>>
              ELSE <<>>) \o collect(i + 1)
  IN collect(1)

\* registerPendingAdds: on entering an object, queue the Add fields of the
\* literal children of its matcher node under the current stack depth.
registerPendingAdds(c, m, acNode) ==
  IF ~c.p.matcherSet \/ acNode = None THEN c
  ELSE IF ~c.p.hasAddRules THEN c
  ELSE IF ChildKeys(m, acNode[1]) = {} THEN c
  ELSE LET depth == Len(c.p.pathStack)
           keys == RangeChildren(c, m, acNode[1])
           RECURSIVE all(_)
           all(i) == IF i > Len(keys) THEN <<>>
                     ELSE addsOfChild(m, keys[i], m.output[Append(acNode[1], keys[i])], depth)
                          \o all(i + 1)
           found == all(1)
           old == IF depth \in DOMAIN c.p.pendingAdds THEN c.p.pendingAdds[depth] ELSE <<>>
       IN IF found = <<>> THEN c
          ELSE [c EXCEPT !.p.pendingAdds =
                  [d \in (DOMAIN c.p.pendingAdds) \cup {depth} |->
                     IF d = depth THEN old \o found ELSE c.p.pendingAdds[d]],
                         !.g.queued = @ \cup {Injection(found[i], Len(old) + i, depth, c.g.at) :
                                                i \in 1..Len(found)}]

\* handleObjectEnd: before the closing brace, emit the fields queued for the
\* depth of the object being closed, then drop the queue.
handleObjectEnd(c) ==
  LET depth == Len(c.p.pathStack) - 1
      adds == IF depth \in DOMAIN c.p.pendingAdds THEN c.p.pendingAdds[depth] ELSE <<>>
      RECURSIVE emit(_, _)
      emit(cc, i) ==
        IF i > Len(adds) THEN cc
        ELSE LET c1 == IF ~cc.p.firstField \/ i > 1 THEN Write(cc, <<",">>) ELSE cc
                 c2 == Write(c1, <<QUOTE>>)
                 c3 == Write(c2, adds[i].key)
                 c4 == Write(c3, <<QUOTE, ":">>)
             IN emit(Write(c4, adds[i].value), i + 1)
  IN IF depth < 0 THEN c
     ELSE IF Len(adds) = 0 THEN c
     ELSE [emit(c, 1) EXCEPT !.p.pendingAdds =
             [d \in (DOMAIN c.p.pendingAdds) \ {depth} |-> c.p.pendingAdds[d]],
                             !.g.emitted = @ \o [i \in 1..Len(adds) |->
                                                   Injection(adds[i], i, depth, c.g.at)]]

Pop(stack) == IF Len(stack) > 0 THEN SubSeq(stack, 1, Len(stack) - 1) ELSE stack

flushPendingComma(c) ==
  IF c.p.pendingComma THEN [Write(c, <<",">>) EXCEPT !.p.pendingComma = FALSE] ELSE c

\* the node a new container gets: lastMatchNode (consumed) or the current node
enterNode(c) == IF c.p.lastMatchNode # None THEN c.p.lastMatchNode ELSE currentACNode(c)

\* handleStructural, in-string branch (key or value string).
handleInString(c, char) ==
  LET keep(cc) == IF cc.p.inKey THEN [cc EXCEPT !.p.keyBuffer = Append(@, char)]
                  ELSE Write(cc, <<char>>)
  IN IF c.p.escaped THEN keep([c EXCEPT !.p.escaped = FALSE])
     ELSE CASE char = BACKSLASH -> keep([c EXCEPT !.p.escaped = TRUE])
            [] char = QUOTE -> keep([c EXCEPT !.p.inString = FALSE])
            [] OTHER -> keep(c)

\* handleStructural, case ':'
handleColon(c, m) ==
  IF c.p.inKey
  THEN LET writeKey(c1) == Write(Write(c1, c1.p.keyBuffer), <<":">>)
           keep(c1, action) ==
             [c1 EXCEPT !.p.firstField = FALSE,
                        !.p.skipping = IF action = ActionSet THEN TRUE ELSE @,
                        !.p.skipState = IF action = ActionSet THEN ZeroSkipState ELSE @,
                        !.p.expectKey = FALSE]
           matched(r) ==
             IF r.action = ActionRemove
             THEN [r.c EXCEPT !.p.skipping = TRUE, !.p.skipState = ZeroSkipState,
                              !.p.expectKey = FALSE]
             ELSE keep(writeKey(flushPendingComma(r.c)), r.action)
       IN matched(checkKeyMatch([c EXCEPT !.p.inKey = FALSE], m, extractKey(c.p.keyBuffer)))
  ELSE [Write(c, <<":">>) EXCEPT !.p.expectKey = FALSE]

\* handleStructural, case '{'
handleObjectStart(c, m) ==
  LET push(c2, acNode) ==
        [c2 EXCEPT !.p.pathStack = Append(@, pathEntry(FALSE, 0, acNode)),
                   !.p.expectKey = TRUE, !.p.firstField = TRUE]
      enter(c1, acNode) ==
        push(registerPendingAdds([c1 EXCEPT !.p.lastMatchNode = None], m, acNode), acNode)
      open(c1) == enter(c1, enterNode(c1))
  IN open(Write(flushPendingComma(c), <<"{">>))

\* handleStructural, case '}'
handleObjectClose(c) ==
  [Write([handleObjectEnd(c) EXCEPT !.p.pathStack = Pop(@)], <<"}">>)
     EXCEPT !.p.expectKey = FALSE, !.p.pendingComma = FALSE]

\* handleStructural, case '['
handleArrayStart(c, m) ==
  LET open(c1) ==
        [c1 EXCEPT !.p.lastMatchNode = None,
                   !.p.pathStack = Append(@, pathEntry(TRUE, 0, enterNode(c1))),
                   !.p.expectKey = FALSE]
  IN checkArrayElementMatch(open(Write(flushPendingComma(c), <<"[">>)), m)

\* handleStructural, case ']'
handleArrayClose(c) ==
  [Write([c EXCEPT !.p.pathStack = Pop(@)], <<"]">>)
     EXCEPT !.p.expectKey = FALSE, !.p.pendingComma = FALSE]

\* A case ',' that defers the comma in an object whatever firstField says.
handleCommaAlwaysPending(c, m) ==
  IF Len(c.p.pathStack) > 0
  THEN IF Top(c).isArray
       THEN LET c1 == [c EXCEPT !.p.pathStack[Len(c.p.pathStack)].arrayIdx = @ + 1]
            IN checkArrayElementMatch(Write(c1, <<",">>), m)
       ELSE [c EXCEPT !.p.pendingComma = TRUE, !.p.expectKey = TRUE]
  ELSE Write(c, <<",">>)

\* handleStructural, case ','
handleComma(c, m) ==
  IF Len(c.p.pathStack) > 0
  THEN IF Top(c).isArray
       THEN LET c1 == [c EXCEPT !.p.pathStack[Len(c.p.pathStack)].arrayIdx = @ + 1]
            IN checkArrayElementMatch(Write(c1, <<",">>), m)
       ELSE [c EXCEPT !.p.pendingComma = IF ~c.p.firstField THEN TRUE ELSE @,
                      !.p.expectKey = TRUE]
  ELSE Write(c, <<",">>)

\* handleStructural, outside skip mode (or on a byte to reprocess)
handleNormal(c, m, char) ==
  IF c.p.inString THEN handleInString(c, char)
  ELSE CASE char = QUOTE ->
              IF c.p.expectKey
              THEN [c EXCEPT !.p.inString = TRUE, !.p.escaped = FALSE, !.p.inKey = TRUE,
                             !.p.keyBuffer = <<char>>]
              ELSE [Write(c, <<char>>) EXCEPT !.p.inString = TRUE, !.p.escaped = FALSE]
         [] char = ":" -> handleColon(c, m)
         [] char = "{" -> handleObjectStart(c, m)
         [] char = "}" -> handleObjectClose(c)
         [] char = "[" -> handleArrayStart(c, m)
         [] char = "]" -> handleArrayClose(c)
         [] char = "," -> handleComma(c, m)
         [] OTHER -> Write(c, <<char>>)

\* A handleStructural that never handles a byte again after the skip handler.
handleStructuralNoReprocess(c, m, char) ==
  IF c.p.skipping THEN handleSkipChar(c, char).c ELSE handleNormal(c, m, char)

\* handleStructural: one structural byte.
handleStructural(c, m, char) ==
  LET normal(r) == IF ~r.reprocess THEN r.c ELSE handleNormal(r.c, m, char)
  IN normal(IF c.p.skipping THEN handleSkipChar(c, char) ELSE [c |-> c, reprocess |-> TRUE])

\* The bytes of a slice of input; an input byte carries, beside the byte ch,
\* the document path `at` of the node it belongs to (read by the history only).
Bytes(chunk) == [i \in 1..Len(chunk) |-> chunk[i].ch]

\* ProcessChunk without the content that follows the last structural byte.
ProcessChunkDropTail(c, m, chunk) ==
  LET data == Bytes(chunk)
      positions == ScanStructural(data, c.p.positionsCap)
      n == Len(positions)
      RECURSIVE loop(_, _, _)
      loop(cc, i, prev) ==
        IF i > n THEN cc
        ELSE LET pos == positions[i]
                 c1 == IF pos > prev THEN handleContent(cc, SubSeq(data, prev + 1, pos)) ELSE cc
             IN loop(handleStructural([c1 EXCEPT !.g.at = chunk[pos + 1].at, !.g.events = @ + 1],
                                      m, data[pos + 1]),
                     i + 1, pos + 1)
      fed == [c EXCEPT !.g.split = c.g.fed > 0, !.g.fed = @ + Len(chunk)]
  IN IF Len(chunk) = 0 THEN c ELSE loop(fed, 1, 0)

\* ProcessChunk: scan the structural positions, hand the content between them
\* to handleContent and each structural byte to handleStructural, then the rest.
ProcessChunk(c, m, chunk) ==
  LET data == Bytes(chunk)
      positions == ScanStructural(data, c.p.positionsCap)
      n == Len(positions)
      RECURSIVE loop(_, _, _)
      loop(cc, i, prev) ==
        IF i > n
        THEN IF prev < Len(data) THEN handleContent(cc, SubSeq(data, prev + 1, Len(data))) ELSE cc
        ELSE LET pos == positions[i]
                 c1 == IF pos > prev THEN handleContent(cc, SubSeq(data, prev + 1, pos)) ELSE cc
             IN loop(handleStructural([c1 EXCEPT !.g.at = chunk[pos + 1].at, !.g.events = @ + 1],
                                      m, data[pos + 1]),
                     i + 1, pos + 1)
      fed == [c EXCEPT !.g.split = c.g.fed > 0, !.g.fed = @ + Len(chunk)]
  IN IF Len(chunk) = 0 THEN c ELSE loop(fed, 1, 0)

\* Finish
Finish(c) == IF c.p.skipping THEN [c EXCEPT !.p.skipping = FALSE] ELSE c

(***************************************************************************)
(* Processor pool: internal/jsonengine/pool.go                             *)
(***************************************************************************)
\* GetPathProcessor: take a pooled processor (or a new one), bind the matcher,
\* recompute hasAddRules, Reset.
GetPathProcessor(pool, m) ==
  LET taken == IF Len(pool) > 0 THEN pool[Len(pool)] ELSE NewPathProcessor
      bound == [taken EXCEPT !.matcherSet = TRUE,
                             !.hasAddRules = \E i \in 1..Len(m.rules) :
                                                m.rules[i].Action = ActionAdd]
  IN [p |-> Reset(bound), pool |-> Pop(pool)]

\* PutPathProcessor: unbind the matcher, truncate the buffers, push to the pool.
PutPathProcessor(pool, p) ==
  Append(pool, [p EXCEPT !.matcherSet = FALSE, !.pathStack = <<>>, !.keyBuffer = <<>>])

(***************************************************************************)
(* PathEngine: internal/jsonengine/engine.go                               *)
(***************************************************************************)
DefaultChunkSize == 524288

\* A NewPathEngine that keeps the rules with an empty path.
NewPathEngineKeepEmpty(rules) ==
  LET bad == {i \in 1..Len(rules) : ParsePath(rules[i].Path).err # ""}
      parsedRules == [i \in 1..Len(rules) |->
                        [rules[i] EXCEPT !.segments = ParsePath(rules[i].Path).segments]]
      built == BuildMatcher(parsedRules)
  IN IF bad # {}
     THEN [err |-> ParsePath(rules[CHOOSE i \in bad : \A j \in bad : i <= j].Path).err,
           engine |-> None]
     ELSE [err |-> "",
           engine |-> Some([matcher |-> built.m, rules |-> parsedRules,
                            chunkSize |-> DefaultChunkSize])]

\* NewPathEngine: drop the rules with an empty path, parse the others (the
\* first parse error is returned), build the matcher.
NewPathEngine(rules) ==
  LET valid == SelectSeq(rules, LAMBDA r : r.Path # <<>>)
      bad == {i \in 1..Len(valid) : ParsePath(valid[i].Path).err # ""}
      parsedRules == [i \in 1..Len(valid) |->
                        [valid[i] EXCEPT !.segments = ParsePath(valid[i].Path).segments]]
      built == BuildMatcher(parsedRules)
  IN IF bad # {}
     THEN [err |-> ParsePath(valid[CHOOSE i \in bad : \A j \in bad : i <= j].Path).err,
           engine |-> None]
     ELSE [err |-> "",
           engine |-> Some([matcher |-> built.m, rules |-> parsedRules,
                            chunkSize |-> DefaultChunkSize])]

\* Rule: a rule of the old shape (rule.go); IsValid, ToPathRule and
\* ConvertRulesToPathRules, which keeps the valid rules.
Rule(key, action, value) == [Key |-> key, Action |-> action, Value |-> value]

IsValid(r) == r.Key # <<>> /\ r.Action \in {ActionSet, ActionAdd, ActionRemove}

ToPathRule(r) ==
  [Path |-> r.Key, Action |-> r.Action, Value |-> r.Value, ValueBytes |-> <<>>,
   segments |-> ParsePath(r.Key).segments]

RECURSIVE ConvertRulesToPathRules(_)
ConvertRulesToPathRules(rules) ==
  IF rules = <<>> THEN <<>>
  ELSE (IF IsValid(Head(rules)) THEN <<ToPathRule(Head(rules))>> ELSE <<>>)
       \o ConvertRulesToPathRules(Tail(rules))

NewPathEngineFromLegacy(rules) == NewPathEngine(ConvertRulesToPathRules(rules))

\* An AddRule that appends the rule to the list before it parses the path.
AddRuleAppendFirst(e, rule) ==
  LET listed == [e EXCEPT !.rules = Append(@, rule)]
      parsedTo(parsed) ==
        IF parsed.err # "" THEN [err |-> parsed.err, engine |-> listed]
        ELSE [err |-> "", engine |-> [listed EXCEPT !.matcher = MatcherAddRule(e.matcher, rule).m]]
  IN parsedTo(ParsePath(rule.Path))

\* PathEngine.AddRule: parse the path (an error returns before anything is
\* changed), append the rule to the list, add it to the matcher.
AddRule(e, rule) ==
  LET admit(stored, r) ==
        [err |-> r.err, engine |-> [e EXCEPT !.rules = Append(@, stored), !.matcher = r.m]]
      parsedTo(parsed) ==
        IF parsed.err # "" THEN [err |-> parsed.err, engine |-> e]
        ELSE admit([rule EXCEPT !.segments = parsed.segments], MatcherAddRule(e.matcher, rule))
  IN parsedTo(ParsePath(rule.Path))

(***************************************************************************)
(* Documents.  A JSON value is a tree: a primitive with its bytes s, an    *)
(* object with members m (key, value) or an array with elements m (value). *)
(* Serialize gives the compact text of a tree, each byte tagged with the   *)
(* path (sequence of steps from the root) of the node it belongs to: a key *)
(* and its colon to the member, a separating comma to the member or        *)
(* element that follows it, an opening bracket to element 0.               *)
(***************************************************************************)
Prim(bytes) == [k |-> "prim", s |-> bytes, m |-> <<>>]
Obj(members) == [k |-> "obj", s |-> <<>>, m |-> members]
Arr(elements) == [k |-> "arr", s |-> <<>>, m |-> [i \in 1..Len(elements) |->
                                                   [key |-> <<>>, v |-> elements[i]]]]
Member(key, v) == [key |-> key, v |-> v]

KeyStep(key) == [isArray |-> FALSE, key |-> key, arrayIdx |-> 0]
IdxStep(i) == [isArray |-> TRUE, key |-> <<>>, arrayIdx |-> i]

Tag(bytes, path) == [i \in 1..Len(bytes) |-> [ch |-> bytes[i], at |-> path]]

RECURSIVE Serialize(_, _)
Serialize(t, path) ==
  LET stepOf(i) == IF t.k = "obj" THEN KeyStep(t.m[i].key) ELSE IdxStep(i - 1)
      RECURSIVE items(_)
      items(i) ==
        IF i > Len(t.m) THEN <<>>
        ELSE LET ip == Append(path, stepOf(i))
             IN (IF i > 1 THEN Tag(<<",">>, ip) ELSE <<>>)
                \o (IF t.k = "obj" THEN Tag(<<QUOTE>> \o t.m[i].key \o <<QUOTE, ":">>, ip)
                    ELSE <<>>)
                \o Serialize(t.m[i].v, ip)
                \o items(i + 1)
  IN CASE t.k = "prim" -> Tag(t.s, path)
       [] t.k = "obj" -> Tag(<<"{">>, path) \o items(1) \o Tag(<<"}">>, path)
       [] t.k = "arr" -> Tag(<<"[">>, Append(path, IdxStep(0))) \o items(1)
                         \o Tag(<<"]">>, path)

Text(t) == Bytes(Serialize(t, <<>>))

(***************************************************************************)
(* Bounded inputs: documents, rules, scenarios                             *)
(***************************************************************************)
MaxNodes == 3
MaxRules == 2

KeyA == <<"a">>
KeyB == <<"b">>
Number1 == <<"1">>
StringS == <<QUOTE, "s", QUOTE>>
\* the string value "\"" (one escaped quote)
StringEsc == <<QUOTE, BACKSLASH, QUOTE, QUOTE>>
Prims == {Prim(Number1), Prim(StringS), Prim(StringEsc)}

\* Key sequences of an object with k members: distinct keys in the order a, b.
KeySeqs(k) ==
  CASE k = 0 -> {<<>>}
    [] k = 1 -> {<<KeyA>>, <<KeyB>>}
    [] k = 2 -> {<<KeyA, KeyB>>}
    [] OTHER -> {}

RECURSIVE TreesOfSize(_), ChildSeqs(_)
\* sequences of trees with `total` nodes altogether
ChildSeqs(total) ==
  IF total = 0 THEN {<<>>}
  ELSE UNION {{<<t>> \o rest : t \in TreesOfSize(j), rest \in ChildSeqs(total - j)} :
              j \in 1..total}

\* trees with exactly n nodes
TreesOfSize(n) ==
  IF n = 1 THEN Prims \cup {Obj(<<>>), Arr(<<>>)}
  ELSE {Arr(cs) : cs \in ChildSeqs(n - 1)}
       \cup UNION {{Obj([i \in 1..Len(cs) |-> Member(ks[i], cs[i])]) : ks \in KeySeqs(Len(cs))} :
                   cs \in ChildSeqs(n - 1)}

\* the documents: objects and arrays of at most MaxNodes nodes
Docs == {t \in UNION {TreesOfSize(n) : n \in 1..MaxNodes} : t.k # "prim"}

\* a document whose only key is spelled like an index segment: {"[0]":1}
BracketKeyDocs == {Obj(<<Member(<<"[", "0", "]">>, Prim(Number1))>>)}

NilValue == [kind |-> "nil", n |-> 0, s |-> <<>>]
IntValue(n) == [kind |-> "int", n |-> n, s |-> <<>>]
Payload9 == <<"9">>

Dot(p, q) == p \o <<".">> \o q
Idx0 == <<"[", "0", "]">>
Idx1 == <<"[", "1", "]">>

KeyPaths == {KeyA, KeyB, Dot(KeyA, KeyB), Dot(WildcardValue, KeyB), Dot(KeyA, WildcardValue),
             Dot(ArrayAllValue, KeyA), Dot(Idx0, KeyB)}
ElemPaths == {Idx0, Idx1, ArrayAllValue, Dot(KeyA, Idx0), Dot(KeyA, ArrayAllValue)}
AddPaths == {KeyA, KeyB, Dot(KeyA, KeyB), Dot(WildcardValue, KeyB), Dot(ArrayAllValue, KeyA)}

Rules ==
  {PathRule(p, ActionRemove, NilValue, <<>>) : p \in KeyPaths \cup ElemPaths}
  \cup {PathRule(p, ActionSet, NilValue, Payload9) : p \in KeyPaths \cup ElemPaths}
  \cup {PathRule(p, ActionAdd, NilValue, Payload9) : p \in AddPaths}
  \cup {PathRule(KeyA, ActionSet, IntValue(7), <<>>)}

\* the rules that rule sets of several rules are made of
FewRules ==
  {PathRule(KeyA, ActionRemove, NilValue, <<>>), PathRule(KeyA, ActionSet, NilValue, Payload9),
   PathRule(KeyB, ActionAdd, NilValue, Payload9), PathRule(KeyA, ActionAdd, NilValue, Number1)}

RECURSIVE DistinctSeqs(_, _)
\* the sequences of n distinct elements of S
DistinctSeqs(S, n) ==
  IF n = 0 THEN {<<>>}
  ELSE UNION {{Append(q, x) : x \in S \ {q[i] : i \in 1..Len(q)}} : q \in DistinctSeqs(S, n - 1)}

RuleSets ==
  {<<>>} \cup {<<r>> : r \in Rules} \cup UNION {DistinctSeqs(FewRules, n) : n \in 2..MaxRules}

AddCount(rules) == Cardinality({i \in 1..Len(rules) : rules[i].Action = ActionAdd})

\* A scenario: the document, the rules, the sink's write limit, the order in
\* which the maps are ranged over, and the reader: whether it may fail, and
\* whether each Read delivers all that remains or any non-empty part of it.
Scenario(d, rs, limit, o, rf, whole) ==
  [doc |-> d, rules |-> rs, limit |-> limit, rangeDesc |-> o, readerFails |-> rf,
   readerWhole |-> whole]

MaxSinkWrites == 2
SmallDocs == {t \in UNION {TreesOfSize(n) : n \in 1..(MaxNodes - 1)} : t.k # "prim"}
ErrorRuleSets == {<<>>, <<PathRule(KeyA, ActionRemove, NilValue, <<>>)>>,
                  <<PathRule(KeyA, ActionSet, NilValue, Payload9)>>}
\* rule sets whose rules all have an empty path
EmptyPathRuleSets ==
  {<<PathRule(<<>>, ActionRemove, NilValue, <<>>)>>,
   <<PathRule(<<>>, ActionSet, NilValue, Payload9), PathRule(<<>>, ActionAdd, NilValue, Payload9)>>}
ChunkRuleSets == {rs \in RuleSets : Len(rs) = 1 /\ rs[1].Path \in {KeyA, Dot(KeyA, KeyB), Idx0}}

\* string values with structural bytes and escapes inside: "{,]", "\"}" and "\\"
StringBrackets == <<QUOTE, "{", ",", "]", QUOTE>>
StringEscBrace == <<QUOTE, BACKSLASH, QUOTE, "}", QUOTE>>
StringBackslash == <<QUOTE, BACKSLASH, BACKSLASH, QUOTE>>
TrickyStrings == {Prim(StringBrackets), Prim(StringEscBrace), Prim(StringBackslash)}

\* documents that hold such a string, alone, before a sibling, or one level down
TrickyDocs ==
  UNION {{Obj(<<Member(KeyA, t)>>), Obj(<<Member(KeyA, t), Member(KeyB, Prim(Number1))>>),
          Arr(<<t>>), Arr(<<t, Prim(Number1)>>),
          Obj(<<Member(KeyA, Arr(<<t>>))>>), Obj(<<Member(KeyA, Obj(<<Member(KeyB, t)>>))>>),
          Arr(<<Arr(<<t>>), Prim(Number1)>>)} : t \in TrickyStrings}

\* objects of up to MaxMembers members (a number, a string or an empty object
\* each) and the sets of Remove rules on their keys
MaxMembers == 3
MemberKeys == <<KeyA, KeyB, <<"c">>, <<"d">>>>
MemberValues == {Prim(Number1), Prim(StringS), Obj(<<>>)}
MemberDocs ==
  UNION {{Obj([i \in 1..n |-> Member(MemberKeys[i], vs[i])]) : vs \in [1..n -> MemberValues]} :
           n \in 2..Min(MaxMembers, Len(MemberKeys))}
MemberRuleSets ==
  UNION {DistinctSeqs({PathRule(MemberKeys[i], ActionRemove, NilValue, <<>>) :
                         i \in 1..Min(MaxMembers, Len(MemberKeys))}, n) : n \in 1..MaxRules}

\* an Add rule below the first level together with a Remove or Set rule
InjectRuleSets ==
  {<<r, PathRule(p, ActionAdd, NilValue, Payload9)>> :
     r \in {PathRule(q, a, NilValue, IF a = ActionSet THEN Payload9 ELSE <<>>) :
              q \in {KeyA, KeyB, Idx0, Dot(KeyA, KeyA)}, a \in {ActionRemove, ActionSet}},
     p \in {Dot(KeyA, KeyB), Dot(WildcardValue, KeyB), Dot(Idx0, KeyB), Dot(ArrayAllValue, KeyA)}}

Scenarios ==
  {Scenario(d, rs, -1, FALSE, FALSE, TRUE) : d \in Docs \cup BracketKeyDocs, rs \in RuleSets}
  \cup {Scenario(d, rs, -1, TRUE, FALSE, TRUE) :
          d \in Docs, rs \in {q \in RuleSets : AddCount(q) >= 2}}
  \cup {Scenario(d, rs, -1, FALSE, FALSE, FALSE) : d \in Docs \cup TrickyDocs, rs \in ChunkRuleSets}
  \cup {Scenario(d, rs, -1, FALSE, FALSE, TRUE) : d \in MemberDocs, rs \in MemberRuleSets}
  \cup {Scenario(d, rs, -1, FALSE, FALSE, TRUE) : d \in Docs, rs \in InjectRuleSets}
  \cup {Scenario(d, rs, l, FALSE, rf, FALSE) :
          d \in SmallDocs, rs \in ErrorRuleSets, l \in -1..MaxSinkWrites, rf \in BOOLEAN}
  \cup {Scenario(d, rs, -1, FALSE, rf, FALSE) : d \in Docs, rs \in EmptyPathRuleSets, rf \in BOOLEAN}

(***************************************************************************)
(* PathEngine.Process as a state machine: engine.go:187-215.               *)
(***************************************************************************)
VARIABLES
  doc,          \* the document tree the input is the text of
  input,        \* the bytes the reader holds, each tagged with its node's path
  readerFails,  \* whether a Read may return an error other than io.EOF
  readerWhole,  \* whether a successful Read delivers all that remains
  engine,       \* the PathEngine: matcher, rules, chunkSize
  pc,           \* "start", "copy", "read", "done": where Process stands
  rpos,         \* number of bytes the reader has delivered
  c,            \* the processor (when held), the sink and the history
  held,         \* whether Process holds a processor from the pool
  pool,         \* the free list of the processor pool
  gets, puts,   \* calls of GetPathProcessor / PutPathProcessor so far
  lastRead,     \* what the last Read returned: the byte count n and the error
  result,       \* what Process returned: "pending", "nil", "read error", "write error"
  given,        \* the rules the constructor was given
  pathArg,      \* the path string of the last call of ParsePath, a constructor or AddRule
  op,           \* that call: "none", "ParsePath", "NewPathEngine", "NewPathEngineFromLegacy", "AddRule"
  parsed,       \* what ParsePath returned, if it was called
  made,         \* what the constructor or AddRule returned (error and engine), if called
  prior,        \* the engine AddRule was called on, if it was called
  contentType,  \* the Content-Type of the payload the proxy handles
  engineRan,    \* whether the proxy called Process on the payload
  data,         \* the byte slice given to ScanStructural
  capacity,     \* len(positions) of the slice given to ScanStructural
  hasAVX2,      \* whether the CPU has AVX2 (amd64 build)
  scanned,      \* what ScanStructural returned and wrote, if it was called
  released,     \* the processor in the pool before Process, as its last user left it
  walk,         \* a walk of the matcher: its steps, the state reached, the last actions
  legacy        \* a run of the legacy engine: input, processor, pipe, consumer

processVars == <<doc, input, readerFails, readerWhole, engine, pc, rpos, c, held, pool, gets, puts,
                 lastRead, result>>
admissionVars == <<given, pathArg, op, parsed, made, prior>>
proxyVars == <<contentType, engineRan>>
scanVars == <<data, capacity, hasAVX2, scanned>>
\* the variables of the machines other than Process, rule admission and proxy
\* the variables of the matcher walk and of the legacy engine
walkVars == <<walk, legacy>>
laterVars == <<scanVars, released, walkVars>>
vars == <<processVars, admissionVars, proxyVars, laterVars>>

ScanIdle == data = <<>> /\ capacity = 0 /\ hasAVX2 = FALSE /\ scanned = None
WalkIdle == walk = None /\ legacy = None
LaterIdle == ScanIdle /\ released = None /\ WalkIdle

ErrNil == "nil"
ErrEOF == "EOF"
ErrRead == "read error"
ErrWrite == "write error"

\* the state before Process is called in scenario sc, but for the pool
ProcessInit(sc) ==
    /\ doc = sc.doc
    /\ input = Serialize(sc.doc, <<>>)
    /\ readerFails = sc.readerFails
    /\ readerWhole = sc.readerWhole
    /\ engine = NewPathEngine(sc.rules).engine[1]
    /\ pc = "start"
    /\ rpos = 0
    /\ c = Config(NewPathProcessor, NewWriter(sc.limit), sc.rangeDesc)
    /\ held = FALSE
    /\ gets = 0
    /\ puts = 0
    /\ lastRead = [n |-> 0, err |-> ErrNil]
    /\ result = "pending"
    /\ given = sc.rules

Init ==
  /\ \E sc \in Scenarios : ProcessInit(sc)
  /\ pool = <<>>
  /\ pathArg = <<>>
  /\ op = "NewPathEngine"
  /\ parsed = None
  /\ made = None
  /\ prior = None
  /\ contentType = <<>>
  /\ engineRan = FALSE
  /\ LaterIdle

\* the error ProcessChunk returns: nil on each of its two return paths
ProcessChunkError(c1) == ErrNil

\* An iteration that looks at the read error before the chunk.
processIterationErrFirst(cc, m, chunk, err) ==
  IF err = ErrRead THEN [c |-> cc, returns |-> TRUE, result |-> err]
  ELSE IF err = ErrEOF
  THEN [c |-> Finish(IF Len(chunk) > 0 THEN ProcessChunk(cc, m, chunk) ELSE cc),
        returns |-> TRUE, result |-> ErrNil]
  ELSE [c |-> ProcessChunk(cc, m, chunk), returns |-> FALSE, result |-> "pending"]

\* One iteration of the read loop of Process, given what Read returned (the
\* chunk buf[:n] and err): the configuration after it, whether Process returns,
\* and the error it returns then.
processIteration(cc, m, chunk, err) ==
  LET after(c1, procErr) ==
        IF procErr # ErrNil THEN [c |-> c1, returns |-> TRUE, result |-> procErr]
        ELSE IF err = ErrNil THEN [c |-> c1, returns |-> FALSE, result |-> "pending"]
        ELSE IF err = ErrEOF THEN [c |-> Finish(c1), returns |-> TRUE, result |-> ErrNil]
        ELSE [c |-> c1, returns |-> TRUE, result |-> err]
      processed(c1) == after(c1, IF Len(chunk) > 0 THEN ProcessChunkError(c1) ELSE ErrNil)
  IN processed(IF Len(chunk) > 0 THEN ProcessChunk(cc, m, chunk) ELSE cc)

\* Process, entry: without rules the input is copied, else a processor is taken
\* from the pool (its return is deferred).
ProcessBegin ==
  /\ pc = "start"
  /\ IF ~HasRules(engine.matcher)
     THEN /\ pc' = "copy"
          /\ UNCHANGED <<c, held, pool, gets>>
     ELSE \E got \in {GetPathProcessor(pool, engine.matcher)} :
             /\ pc' = "read"
             /\ c' = [c EXCEPT !.p = got.p]
             /\ held' = TRUE
             /\ pool' = got.pool
             /\ gets' = gets + 1
  /\ UNCHANGED <<doc, input, readerFails, readerWhole, engine, rpos, puts, lastRead, result>>
  /\ UNCHANGED <<admissionVars, proxyVars, laterVars>>

\* Process without rules: io.Copy(output, input).  The reader delivers its n
\* remaining bytes, or fewer and then an error; the sink may refuse the write.
ProcessCopy ==
  /\ pc = "copy"
  /\ \E n \in 0..Len(input), err \in {ErrEOF, ErrRead} :
       /\ err = ErrEOF => n = Len(input)
       /\ err = ErrRead => readerFails
       /\ \E c1 \in {IF n > 0 THEN Write(c, Bytes(SubSeq(input, 1, n))) ELSE c} :
             /\ c' = c1
             /\ rpos' = n
             /\ lastRead' = [n |-> n, err |-> err]
             /\ result' = IF c1.w.failed THEN ErrWrite
                          ELSE IF err = ErrRead THEN ErrRead ELSE ErrNil
  /\ pc' = "done"
  /\ UNCHANGED <<doc, input, readerFails, readerWhole, engine, held, pool, gets, puts>>
  /\ UNCHANGED <<admissionVars, proxyVars, laterVars>>

\* Process, one turn of the loop: input.Read returns n bytes (at most chunkSize)
\* and an error; the chunk is processed; on EOF or an error Process returns and
\* the deferred PutPathProcessor runs.
ProcessRead ==
  /\ pc = "read"
  /\ \E n \in 0..Min(engine.chunkSize, Len(input) - rpos), err \in {ErrNil, ErrEOF, ErrRead} :
       /\ err = ErrNil => n >= 1
       /\ err # ErrRead /\ readerWhole => n = Len(input) - rpos
       /\ err = ErrEOF => rpos + n = Len(input)
       /\ err = ErrRead => readerFails
       /\ \E it \in {processIteration(c, engine.matcher, SubSeq(input, rpos + 1, rpos + n), err)} :
             /\ c' = it.c
             /\ rpos' = rpos + n
             /\ lastRead' = [n |-> n, err |-> err]
             /\ result' = it.result
             /\ IF it.returns
                THEN /\ pc' = "done"
                     /\ pool' = PutPathProcessor(pool, it.c.p)
                     /\ puts' = puts + 1
                     /\ held' = FALSE
                ELSE UNCHANGED <<pc, pool, puts, held>>
  /\ UNCHANGED <<doc, input, readerFails, readerWhole, engine, gets>>
  /\ UNCHANGED <<admissionVars, proxyVars, laterVars>>

Next == ProcessBegin \/ ProcessCopy \/ ProcessRead

Spec == Init /\ [][Next]_vars

(***************************************************************************)
(* Rule admission as a state machine: ParsePath on a path string, the two  *)
(* constructors on rules with that path (or key), AddRule on the engine a  *)
(* constructor returned.                                                   *)
(***************************************************************************)
MaxPathLen == 4

PathAlphabet == {"a", ".", "[", "]", "*", "0", "1", "-"}

RECURSIVE StringsOver(_, _)
\* the strings over alphabet S of length n
StringsOver(S, n) ==
  IF n = 0 THEN {<<>>} ELSE {Append(q, x) : q \in StringsOver(S, n - 1), x \in S}

\* an index beyond the range of int: 2^63
HugeIndex == <<"[">> \o MinIntDigits \o <<"]">>

\* longer paths of several segments
LongTexts == {Dot(KeyA, Dot(Idx1, WildcardValue)), Dot(ArrayAllValue, Dot(KeyA, Idx0)),
              Dot(WildcardValue, Dot(ArrayAllValue, KeyB))}

PathTexts ==
  UNION {StringsOver(PathAlphabet, n) : n \in 0..MaxPathLen} \cup {HugeIndex} \cup LongTexts

\* the rules an engine has before the path under test is admitted
BaseRuleSets == {<<>>, <<PathRule(KeyB, ActionRemove, NilValue, <<>>)>>}

\* the paths AddRule is called with
AddTexts == {<<>>, KeyA, Idx0, <<"[", "a", "]">>, <<"a", ".", "[", "-", "]">>}

AdmitInit ==
  /\ ProcessInit(Scenario(Prim(Number1), <<>>, -1, FALSE, FALSE, TRUE))
  /\ pool = <<>>
  /\ pathArg \in PathTexts
  /\ op = "none"
  /\ parsed = None
  /\ made = None
  /\ prior = None
  /\ contentType = <<>>
  /\ engineRan = FALSE
  /\ LaterIdle

\* ParsePath(path)
CallParsePath ==
  /\ op = "none"
  /\ op' = "ParsePath"
  /\ parsed' = Some(ParsePath(pathArg))
  /\ UNCHANGED <<processVars, proxyVars, laterVars, given, pathArg, made, prior>>

\* NewPathEngine(rules), one of the rules having the path
CallNewPathEngine ==
  /\ op = "none"
  /\ \E base \in BaseRuleSets, first \in BOOLEAN :
       \E rules \in {IF first THEN <<PathRule(pathArg, ActionRemove, NilValue, <<>>)>> \o base
                     ELSE base \o <<PathRule(pathArg, ActionRemove, NilValue, <<>>)>>} :
          /\ given' = rules
          /\ made' = Some(NewPathEngine(rules))
  /\ op' = "NewPathEngine"
  /\ UNCHANGED <<processVars, proxyVars, laterVars, pathArg, parsed, prior>>

\* NewPathEngineFromLegacy(rules), the rule having the path as its key
CallNewPathEngineFromLegacy ==
  /\ op = "none"
  /\ \E action \in {ActionRemove, NoAction} :
       \E rules \in {<<Rule(pathArg, action, NilValue)>>} :
          /\ given' = rules
          /\ made' = Some(NewPathEngineFromLegacy(rules))
  /\ op' = "NewPathEngineFromLegacy"
  /\ UNCHANGED <<processVars, proxyVars, laterVars, pathArg, parsed, prior>>

\* e.AddRule(rule) on the engine a constructor returned
CallAddRule ==
  /\ op \in {"NewPathEngine", "NewPathEngineFromLegacy"}
  /\ made # None
  /\ made[1].engine # None
  /\ \E p \in AddTexts :
       \E r \in {AddRule(made[1].engine[1], PathRule(p, ActionRemove, NilValue, <<>>))} :
          /\ pathArg' = p
          /\ made' = Some([err |-> r.err, engine |-> Some(r.engine)])
  /\ prior' = made[1].engine
  /\ op' = "AddRule"
  /\ UNCHANGED <<processVars, proxyVars, laterVars, given, parsed>>

AdmitNext == CallParsePath \/ CallNewPathEngine \/ CallNewPathEngineFromLegacy \/ CallAddRule

AdmitSpec == AdmitInit /\ [][AdmitNext]_vars

(***************************************************************************)
(* The proxy's use of the engine: internal/proxy/response_handlers.go.     *)
(* handleNormalResponse writes a response body to the client,              *)
(* applyInboundRules returns the request body to send upstream.            *)
(***************************************************************************)
RECURSIVE Contains(_, _)
\* strings.Contains
Contains(str, substr) ==
  IF Len(str) < Len(substr) THEN FALSE
  ELSE IF SubSeq(str, 1, Len(substr)) = substr THEN TRUE
  ELSE Contains(Tail(str), substr)

Json == <<"j", "s", "o", "n">>

\* Process run to its end on a body, reader and sink without failure: the
\* configuration holding what was written
ProcessAll(e, w, body) ==
  IF ~HasRules(e.matcher) THEN (IF Len(body) > 0 THEN Write(w, Bytes(body)) ELSE w)
  ELSE LET fresh == [w EXCEPT !.p = GetPathProcessor(<<>>, e.matcher).p]
       IN Finish(IF Len(body) > 0 THEN ProcessChunk(fresh, e.matcher, body) ELSE fresh)

\* the body copied as it is
PassThrough(w, body) == IF Len(body) > 0 THEN Write(w, Bytes(body)) ELSE w

\* handleNormalResponse: with outbound rules and a Content-Type containing
\* "json" the engine is made and run (unless it cannot be made); otherwise the
\* body is copied.
handleNormalResponse(rules, ctype, w, body) ==
  LET with(r) ==
        IF r.err # "" THEN [ran |-> FALSE, c |-> PassThrough(w, body)]
        ELSE [ran |-> TRUE, c |-> ProcessAll(r.engine[1], w, body)]
  IN IF Len(rules) > 0 /\ Contains(ctype, Json) THEN with(NewPathEngine(rules))
     ELSE [ran |-> FALSE, c |-> PassThrough(w, body)]

\* applyInboundRules: without inbound rules or with an empty body the body is
\* returned; otherwise the engine is made and run (unless it cannot be made).
applyInboundRules(rules, w, body) ==
  LET with(r) ==
        IF r.err # "" THEN [ran |-> FALSE, c |-> PassThrough(w, body)]
        ELSE [ran |-> TRUE, c |-> ProcessAll(r.engine[1], w, body)]
  IN IF Len(rules) = 0 \/ Len(body) = 0 THEN [ran |-> FALSE, c |-> PassThrough(w, body)]
     ELSE with(NewPathEngine(rules))

\* the Content-Type values of the payloads
ContentTypes ==
  {<<>>, Json, <<"a", "/">> \o Json, <<"a", "/">> \o Json \o <<";", "q">>,
   <<"t", "e", "x", "t">>, <<"a", "/", "j", "s", "o">>, <<"a", "/", "J", "S", "O", "N">>}

\* the rule lists of a group (one direction)
GroupRuleLists ==
  {<<>>, <<PathRule(KeyA, ActionRemove, NilValue, <<>>)>>,
   <<PathRule(KeyA, ActionSet, NilValue, Payload9)>>,
   <<PathRule(<<"[", "a", "]">>, ActionRemove, NilValue, <<>>)>>}

\* the payloads: documents and the empty body
Bodies == SmallDocs \cup {Prim(<<>>)}

ProxyInit ==
  /\ \E d \in Bodies : doc = d /\ input = Serialize(d, <<>>)
  /\ given \in GroupRuleLists
  /\ readerFails = FALSE
  /\ readerWhole = TRUE
  /\ engine = NewPathEngine(<<>>).engine[1]
  /\ pc = "start"
  /\ rpos = 0
  /\ c = Config(NewPathProcessor, NewWriter(-1), FALSE)
  /\ held = FALSE
  /\ pool = <<>>
  /\ gets = 0
  /\ puts = 0
  /\ lastRead = [n |-> 0, err |-> ErrNil]
  /\ result = "pending"
  /\ contentType \in ContentTypes
  /\ engineRan = FALSE
  /\ LaterIdle
  /\ pathArg = <<>>
  /\ op = "none"
  /\ parsed = None
  /\ made = None
  /\ prior = None

\* ps.handleNormalResponse on a response with this body and Content-Type
HandleNormalResponse ==
  /\ op = "none"
  /\ op' = "handleNormalResponse"
  /\ \E r \in {handleNormalResponse(given, contentType, c, input)} :
       /\ engineRan' = r.ran
       /\ c' = r.c
  /\ UNCHANGED <<doc, input, readerFails, readerWhole, engine, pc, rpos, held, pool, gets, puts,
                 lastRead, result, given, pathArg, parsed, made, prior, contentType, laterVars>>

\* ps.applyInboundRules on a request with this body
ApplyInboundRules ==
  /\ op = "none"
  /\ op' = "applyInboundRules"
  /\ \E r \in {applyInboundRules(given, c, input)} :
       /\ engineRan' = r.ran
       /\ c' = r.c
  /\ UNCHANGED <<doc, input, readerFails, readerWhole, engine, pc, rpos, held, pool, gets, puts,
                 lastRead, result, given, pathArg, parsed, made, prior, contentType, laterVars>>

ProxyNext == HandleNormalResponse \/ ApplyInboundRules

ProxySpec == ProxyInit /\ [][ProxyNext]_vars

(***************************************************************************)
(* Process with a processor in the pool that an earlier transformation     *)
(* released: pool.go.  The earlier user stopped anywhere in its input.     *)
(***************************************************************************)
\* the rule sets and documents of the earlier transformation
EarlierRuleSets ==
  {<<PathRule(KeyA, ActionSet, NilValue, Payload9)>>,
   <<PathRule(KeyA, ActionRemove, NilValue, <<>>)>>,
   <<PathRule(Dot(KeyA, KeyB), ActionAdd, NilValue, Payload9)>>}
EarlierDocs ==
  {Obj(<<Member(KeyA, Prim(StringS))>>), Obj(<<Member(KeyA, Obj(<<>>))>>),
   Obj(<<Member(KeyA, Arr(<<Prim(Number1)>>))>>)}

\* the processor after the first n bytes of the document under the rules
ProcessorAfter(rs, d, n) ==
  ProcessChunk(Config(GetPathProcessor(<<>>, NewPathEngine(rs).engine[1].matcher).p,
                      NewWriter(-1), FALSE),
               NewPathEngine(rs).engine[1].matcher, SubSeq(Serialize(d, <<>>), 1, n)).p

\* the processors an earlier transformation may have released
ReleasedProcessors ==
  UNION {{ProcessorAfter(rs, d, n) : n \in 1..Len(Serialize(d, <<>>))} :
           rs \in EarlierRuleSets, d \in EarlierDocs}

PoolRuleSets ==
  {<<>>, <<PathRule(KeyA, ActionSet, NilValue, Payload9)>>,
   <<PathRule(KeyB, ActionRemove, NilValue, <<>>)>>,
   <<PathRule(KeyB, ActionAdd, NilValue, Payload9)>>}

\* the longest input that is read in arbitrary pieces
MaxSplitLen == 9

PoolInit ==
  /\ \E d \in Docs, rs \in PoolRuleSets, whole \in BOOLEAN :
       ProcessInit(Scenario(d, rs, -1, FALSE, FALSE, whole \/ Len(Text(d)) > MaxSplitLen))
  /\ pathArg = <<>>
  /\ op = "NewPathEngine"
  /\ parsed = None
  /\ made = None
  /\ prior = None
  /\ contentType = <<>>
  /\ engineRan = FALSE
  /\ ScanIdle
  /\ WalkIdle
  /\ \E p \in ReleasedProcessors :
       /\ released = Some(p)
       /\ pool = PutPathProcessor(<<>>, p)

PoolSpec == PoolInit /\ [][Next]_vars

(***************************************************************************)
(* Process with the default sizes, engine.go:170 and pool.go:8, 21, both   *)
(* counted in units of Scale: a chunk of DefaultChunkSize / Scale bytes    *)
(* and a positions buffer of DefaultPositionsCap / Scale entries, which    *)
(* keeps the four bytes of chunk to one position of the defaults.          *)
(***************************************************************************)
Scale == 32768

ScaledChunkSize == DefaultChunkSize \div Scale
ScaledPositionsCap == DefaultPositionsCap \div Scale

CapRuleSets == PoolRuleSets \cup {<<PathRule(Idx1, ActionSet, NilValue, Payload9)>>}

CapInit ==
  /\ \E d \in SmallDocs, rs \in CapRuleSets, whole \in BOOLEAN :
       /\ doc = d
       /\ input = Serialize(d, <<>>)
       /\ readerFails = FALSE
       /\ readerWhole = whole
       /\ engine = [NewPathEngine(rs).engine[1] EXCEPT !.chunkSize = ScaledChunkSize]
       /\ given = rs
  /\ pc = "start"
  /\ rpos = 0
  /\ c = Config(NewPathProcessor, NewWriter(-1), FALSE)
  /\ held = FALSE
  /\ gets = 0
  /\ puts = 0
  /\ lastRead = [n |-> 0, err |-> ErrNil]
  /\ result = "pending"
  /\ pool = <<[NewPathProcessor EXCEPT !.positionsCap = ScaledPositionsCap]>>
  /\ pathArg = <<>>
  /\ op = "NewPathEngine"
  /\ parsed = None
  /\ made = None
  /\ prior = None
  /\ contentType = <<>>
  /\ engineRan = FALSE
  /\ LaterIdle

CapSpec == CapInit /\ [][Next]_vars

(***************************************************************************)
(* An engine made by NewPathEngine(nil) and grown by AddRule, one call for *)
(* each rule of the list `given`, then Process: engine.go:243-256.         *)
(***************************************************************************)
GrowPaths == {KeyA, KeyB, Dot(KeyA, KeyA), Dot(KeyA, KeyB), Dot(WildcardValue, KeyB), Idx0}

GrowRules ==
  {PathRule(p, ActionRemove, NilValue, <<>>) : p \in GrowPaths}
  \cup {PathRule(KeyB, ActionSet, NilValue, Payload9),
        PathRule(Dot(KeyA, KeyB), ActionAdd, NilValue, Payload9)}

GrowRuleLists == UNION {DistinctSeqs(GrowRules, n) : n \in 0..MaxRules}

GrowInit ==
  /\ \E d \in Docs, rs \in GrowRuleLists :
       /\ doc = d
       /\ input = Serialize(d, <<>>)
       /\ given = rs
       /\ pc = IF Len(rs) = 0 THEN "start" ELSE "grow"
  /\ engine = NewPathEngine(<<>>).engine[1]
  /\ readerFails = FALSE
  /\ readerWhole = TRUE
  /\ rpos = 0
  /\ c = Config(NewPathProcessor, NewWriter(-1), FALSE)
  /\ held = FALSE
  /\ gets = 0
  /\ puts = 0
  /\ lastRead = [n |-> 0, err |-> ErrNil]
  /\ result = "pending"
  /\ pool = <<>>
  /\ pathArg = <<>>
  /\ op = "NewPathEngine"
  /\ parsed = None
  /\ made = None
  /\ prior = None
  /\ contentType = <<>>
  /\ engineRan = FALSE
  /\ LaterIdle

\* e.AddRule(rule) for the next rule of the list
EngineAddRule ==
  /\ pc = "grow"
  /\ \E r \in {AddRule(engine, given[Len(engine.rules) + 1])} :
       /\ r.err = ""
       /\ engine' = r.engine
       /\ pc' = IF Len(r.engine.rules) = Len(given) THEN "start" ELSE "grow"
  /\ op' = "AddRule"
  /\ UNCHANGED <<doc, input, readerFails, readerWhole, rpos, c, held, pool, gets, puts, lastRead,
                 result>>
  /\ UNCHANGED <<given, pathArg, parsed, made, prior, proxyVars, laterVars>>

GrowNext == EngineAddRule \/ ProcessBegin \/ ProcessCopy \/ ProcessRead

GrowSpec == GrowInit /\ [][GrowNext]_vars

(***************************************************************************)
(* ScanStructural of the amd64 build (simd_amd64.go, simd_amd64.s) and of  *)
(* the other builds (simd_other.go), as a state machine over byte slices.  *)
(***************************************************************************)
BlockSize == 32

\* the lowest element of a non-empty set of bit positions (BSFL)
LowestBit(mask) == CHOOSE b \in mask : \A x \in mask : b <= x

RECURSIVE scanAVX2Extract(_, _, _, _)
\* scanAVX2, label extract: store the offsets of the set bits of the mask,
\* lowest first, while there is room; full tells that the room ran out
scanAVX2Extract(mask, offset, cap, positions) ==
  IF Len(positions) >= cap THEN [full |-> TRUE, positions |-> positions]
  ELSE LET stored == Append(positions, offset + LowestBit(mask))
           cleared == mask \ {LowestBit(mask)}
       IN IF cleared # {} THEN scanAVX2Extract(cleared, offset, cap, stored)
          ELSE [full |-> FALSE, positions |-> stored]

RECURSIVE scanAVX2Tail(_, _, _, _)
\* scanAVX2, label tail: the bytes after the last whole block, one by one
scanAVX2Tail(bytes, offset, cap, positions) ==
  IF offset >= Len(bytes) \/ Len(positions) >= cap THEN positions
  ELSE scanAVX2Tail(bytes, offset + 1, cap,
                    IF isStructural(bytes[offset + 1]) THEN Append(positions, offset)
                    ELSE positions)

RECURSIVE scanAVX2Loop(_, _, _, _)
\* scanAVX2, label loop: whole blocks of 32 bytes, then the tail
scanAVX2Loop(bytes, offset, cap, positions) ==
  IF offset + BlockSize > Len(bytes) THEN scanAVX2Tail(bytes, offset, cap, positions)
  ELSE LET mask == {b \in 0..(BlockSize - 1) : isStructural(bytes[offset + b + 1])}
           next(r) == IF r.full THEN r.positions
                      ELSE scanAVX2Loop(bytes, offset + BlockSize, cap, r.positions)
       IN IF mask = {} THEN scanAVX2Loop(bytes, offset + BlockSize, cap, positions)
          ELSE next(scanAVX2Extract(mask, offset, cap, positions))

\* A scanAVX2 that stops after the last whole block.
scanAVX2NoTail(bytes, cap) ==
  scanAVX2Loop(SubSeq(bytes, 1, Len(bytes) - (Len(bytes) % BlockSize)), 0, cap, <<>>)

scanAVX2(bytes, cap) == scanAVX2Loop(bytes, 0, cap, <<>>)

\* ScanStructural of the amd64 build
ScanStructuralAmd64(bytes, cap, avx2) ==
  IF Len(bytes) = 0 THEN <<>>
  ELSE IF avx2 /\ Len(bytes) >= BlockSize THEN scanAVX2(bytes, cap)
  ELSE scanGeneric(bytes, cap)

MaxScanLen == 66
MaxMarks == 2

StructuralBytes == <<QUOTE, "{", "}", "[", "]", ":", ",">>

\* the lengths of the slices: around the block boundaries, and the longest
ScanLens == {n \in 0..MaxScanLen : n % BlockSize \in {0, 1, BlockSize - 1} \/ n = MaxScanLen}

\* a slice of length n with structural bytes exactly at the positions marks
\* (1-based), bytes that are not structural elsewhere
Marked(n, marks) ==
  [i \in 1..n |-> IF i \in marks THEN StructuralBytes[(i % 7) + 1]
                  ELSE IF i % 3 = 0 THEN BACKSLASH ELSE IF i % 3 = 1 THEN "x" ELSE ";"]

RECURSIVE SubsetsUpTo(_, _)
\* the subsets of S of at most k elements
SubsetsUpTo(S, k) ==
  IF k = 0 THEN {{}}
  ELSE SubsetsUpTo(S, k - 1) \cup {T \cup {x} : T \in SubsetsUpTo(S, k - 1), x \in S}

\* the slices: few structural bytes anywhere, or structural bytes only
ScanInputs ==
  UNION {{Marked(n, marks) : marks \in SubsetsUpTo(1..n, MaxMarks)} : n \in ScanLens}
  \cup {Marked(n, 1..n) : n \in ScanLens}

StructuralCount(bytes) == Cardinality({i \in 1..Len(bytes) : isStructural(bytes[i])})

ScanInit ==
  /\ ProcessInit(Scenario(Prim(Number1), <<>>, -1, FALSE, FALSE, TRUE))
  /\ pool = <<>>
  /\ pathArg = <<>>
  /\ op = "none"
  /\ parsed = None
  /\ made = None
  /\ prior = None
  /\ contentType = <<>>
  /\ engineRan = FALSE
  /\ data \in ScanInputs
  /\ capacity \in {k \in 0..(MaxScanLen + 1) :
                     \/ k <= MaxMarks + 1
                     \/ k \in (StructuralCount(data) - 1)..(StructuralCount(data) + 1)}
  /\ hasAVX2 \in BOOLEAN
  /\ scanned = None
  /\ released = None
  /\ WalkIdle

\* ScanStructural(data, positions) of the amd64 build
CallScanStructuralAmd64 ==
  /\ scanned = None
  /\ \E positions \in {ScanStructuralAmd64(data, capacity, hasAVX2)} :
       scanned' = Some([build |-> "amd64", count |-> Len(positions), positions |-> positions])
  /\ UNCHANGED <<processVars, admissionVars, proxyVars, data, capacity, hasAVX2, released, walkVars>>

\* ScanStructural(data, positions) of the other builds
CallScanStructuralOther ==
  /\ scanned = None
  /\ ~hasAVX2
  /\ \E positions \in {ScanStructural(data, capacity)} :
       scanned' = Some([build |-> "other", count |-> Len(positions), positions |-> positions])
  /\ UNCHANGED <<processVars, admissionVars, proxyVars, data, capacity, hasAVX2, released, walkVars>>

ScanNext == CallScanStructuralAmd64 \/ CallScanStructuralOther

ScanSpec == ScanInit /\ [][ScanNext]_vars

(***************************************************************************)
(* PathMatcher.Match walked from the root (unnamed/part_002), the way the  *)
(* processor walks it: one Match per key or element, from the state the    *)
(* Match of the enclosing container returned.                              *)
(***************************************************************************)
MaxWalk == 3
MaxWalkRules == 2

WalkPaths == {KeyA, WildcardValue, Idx0, ArrayAllValue, Dot(KeyA, KeyB), Dot(WildcardValue, KeyB),
              Dot(KeyA, Idx0), Dot(ArrayAllValue, KeyA)}

WalkRuleSets ==
  UNION {DistinctSeqs({PathRule(p, ActionRemove, NilValue, <<>>) : p \in WalkPaths}, n) :
           n \in 1..MaxWalkRules}

WalkSteps == {KeyStep(KeyA), KeyStep(KeyB), IdxStep(0), IdxStep(1)}

MatchInit ==
  /\ ProcessInit(Scenario(Prim(Number1), <<>>, -1, FALSE, FALSE, TRUE))
  /\ pool = <<>>
  /\ pathArg = <<>>
  /\ op = "none"
  /\ parsed = None
  /\ made = None
  /\ prior = None
  /\ contentType = <<>>
  /\ engineRan = FALSE
  /\ ScanIdle
  /\ released = None
  /\ legacy = None
  /\ \E rs \in WalkRuleSets :
       walk = Some([m |-> BuildMatcher(rs).m, steps |-> <<>>, state |-> None, actions |-> <<>>])

\* m.Match(state, key, isArray, arrayIdx) for one more step of the walk
CallMatch ==
  /\ walk # None
  /\ Len(walk[1].steps) < MaxWalk
  /\ \E step \in WalkSteps :
       \E r \in {Match(walk[1].m, walk[1].state, step.key, step.isArray, step.arrayIdx)} :
         walk' = Some([walk[1] EXCEPT !.steps = Append(@, step), !.state = Some(r.node),
                                      !.actions = r.actions])
  /\ UNCHANGED <<processVars, admissionVars, proxyVars, scanVars, released, legacy>>

MatchNext == CallMatch

MatchSpec == MatchInit /\ [][MatchNext]_vars

(***************************************************************************)
(* The legacy engine: Scanner (unnamed/part_003), processor                *)
(* (unnamed/part_001), Engine (engine.go).  The input is finite: the only  *)
(* error its reader returns is io.EOF.  The bufio.Reader of the scanner is *)
(* the sequence `rest` of the bytes not yet consumed (the inputs are       *)
(* shorter than its buffer, so one Peek sees all of them).                 *)
(***************************************************************************)
ErrUnexpectedEOF == "unexpected EOF"
ErrScan == "ScanError"

Token(type, raw, value) == [Type |-> type, Raw |-> raw, Value |-> value]

Drop(bytes, n) == SubSeq(bytes, n + 1, Len(bytes))

\* F(x), with x evaluated once before F is applied to its value
With(F(_), x) == CHOOSE y \in {F(v) : v \in {x}} : TRUE

\* NewScanner
NewScanner(bytes) ==
  [rest |-> bytes, err |-> ErrNil, depth |-> 0, inObject |-> FALSE, expectKey |-> FALSE,
   lastToken |-> Token("", <<>>, <<>>)]

\* skipWhitespace: the bytes left after the leading white space
RECURSIVE skipWhitespace(_)
skipWhitespace(rest) ==
  IF rest # <<>> /\ rest[1] \in {" ", "\t", "\n", "\r"} THEN skipWhitespace(Tail(rest)) ELSE rest

\* the loops of scanNumber, SkipValue (number) and copyNumberValue: the number
\* of bytes up to the first one that is not a byte of a number (i - 1 of them)
RECURSIVE numberEnd(_, _)
numberEnd(bytes, i) ==
  IF i <= Len(bytes) /\ (IsDigit(bytes[i]) \/ bytes[i] \in {".", "e", "E", "+", "-"})
  THEN numberEnd(bytes, i + 1)
  ELSE i - 1

\* the loops of scanString, SkipValue (string) and copyStringValue: the
\* position of the closing quote, 0 when the bytes end before it
RECURSIVE stringEnd(_, _, _)
stringEnd(bytes, i, escape) ==
  IF i > Len(bytes) THEN 0
  ELSE IF escape THEN stringEnd(bytes, i + 1, FALSE)
  ELSE IF bytes[i] = BACKSLASH THEN stringEnd(bytes, i + 1, TRUE)
  ELSE IF bytes[i] = QUOTE THEN i
  ELSE stringEnd(bytes, i + 1, FALSE)

\* the loops of SkipValue (compound) and copyCompoundValue: the position of
\* the bracket that closes the value, 0 when the bytes end before it
RECURSIVE compoundEnd(_, _, _, _, _)
compoundEnd(bytes, i, depth, inString, escape) ==
  IF i > Len(bytes) THEN 0
  ELSE IF escape THEN compoundEnd(bytes, i + 1, depth, inString, FALSE)
  ELSE IF bytes[i] = BACKSLASH /\ inString THEN compoundEnd(bytes, i + 1, depth, inString, TRUE)
  ELSE IF bytes[i] = QUOTE THEN compoundEnd(bytes, i + 1, depth, ~inString, FALSE)
  ELSE IF ~inString /\ bytes[i] \in {"{", "["}
  THEN compoundEnd(bytes, i + 1, depth + 1, inString, FALSE)
  ELSE IF ~inString /\ bytes[i] \in {"}", "]"}
  THEN IF depth = 1 THEN i ELSE compoundEnd(bytes, i + 1, depth - 1, inString, FALSE)
  ELSE compoundEnd(bytes, i + 1, depth, inString, FALSE)

\* scanString, the opening quote consumed
scanString(s) ==
  LET to(e) ==
        IF e = 0
        THEN [ok |-> FALSE,
              s |-> [s EXCEPT !.rest = <<>>, !.err = ErrEOF,
                              !.lastToken = Token("TokenError", <<>>, <<>>)]]
        ELSE [ok |-> TRUE,
              s |-> [s EXCEPT !.rest = Drop(s.rest, e),
                              !.lastToken =
                                 Token(IF s.expectKey /\ s.inObject THEN "TokenKey"
                                       ELSE "TokenString",
                                       <<QUOTE>> \o SubSeq(s.rest, 1, e),
                                       SubSeq(s.rest, 1, e - 1))]]
  IN to(stringEnd(s.rest, 1, FALSE))

\* scanNumber, the first byte consumed
scanNumber(s, first) ==
  LET to(n) ==
        [ok |-> TRUE,
         s |-> [s EXCEPT !.rest = Drop(s.rest, n),
                         !.lastToken = Token("TokenNumber", <<first>> \o SubSeq(s.rest, 1, n),
                                             <<>>)]]
  IN to(numberEnd(s.rest, 1))

\* scanLiteral, the first byte consumed
scanLiteral(s, expected, tokenType) ==
  LET remaining == Tail(expected)
      k == Len(remaining)
  IN IF Len(s.rest) < k
     THEN [ok |-> FALSE,
           s |-> [s EXCEPT !.rest = <<>>,
                           !.err = IF s.rest = <<>> THEN ErrEOF ELSE ErrUnexpectedEOF,
                           !.lastToken = Token("TokenError", <<>>, <<>>)]]
     ELSE IF SubSeq(s.rest, 1, k) # remaining
     THEN [ok |-> FALSE,
           s |-> [s EXCEPT !.rest = Drop(s.rest, k), !.err = ErrScan,
                           !.lastToken = Token("TokenError", <<>>, <<>>)]]
     ELSE [ok |-> TRUE,
           s |-> [s EXCEPT !.rest = Drop(s.rest, k),
                           !.lastToken = Token(tokenType, expected, <<>>)]]

\* Scanner.Next: whether there is a token, and the scanner after the call
ScannerNext(s) ==
  LET one(b, s1, type) == [ok |-> TRUE, s |-> [s1 EXCEPT !.lastToken = Token(type, <<b>>, <<>>)]]
      from(b, s1) ==
        CASE b = "{" -> one(b, [s1 EXCEPT !.depth = @ + 1, !.inObject = TRUE, !.expectKey = TRUE],
                            "TokenObjectStart")
          [] b = "}" -> one(b, [s1 EXCEPT !.depth = @ - 1, !.expectKey = FALSE], "TokenObjectEnd")
          [] b = "[" -> one(b, [s1 EXCEPT !.depth = @ + 1, !.inObject = FALSE, !.expectKey = FALSE],
                            "TokenArrayStart")
          [] b = "]" -> one(b, [s1 EXCEPT !.depth = @ - 1], "TokenArrayEnd")
          [] b = ":" -> one(b, [s1 EXCEPT !.expectKey = FALSE], "TokenColon")
          [] b = "," -> one(b, [s1 EXCEPT !.expectKey = IF s1.inObject THEN TRUE ELSE @],
                            "TokenComma")
          [] b = QUOTE -> scanString(s1)
          [] b = "t" -> scanLiteral(s1, <<"t", "r", "u", "e">>, "TokenTrue")
          [] b = "f" -> scanLiteral(s1, <<"f", "a", "l", "s", "e">>, "TokenFalse")
          [] b = "n" -> scanLiteral(s1, <<"n", "u", "l", "l">>, "TokenNull")
          [] OTHER ->
               IF b = "-" \/ IsDigit(b) THEN scanNumber(s1, b)
               ELSE [ok |-> FALSE,
                     s |-> [s1 EXCEPT !.err = ErrScan,
                                      !.lastToken = Token("TokenError", <<>>, <<>>)]]
      read(rest) ==
        IF rest = <<>>
        THEN [ok |-> FALSE,
              s |-> [s EXCEPT !.rest = rest, !.lastToken = Token("TokenEOF", <<>>, <<>>)]]
        ELSE from(rest[1], [s EXCEPT !.rest = Tail(rest)])
  IN IF s.err # ErrNil THEN [ok |-> FALSE, s |-> s] ELSE With(read, skipWhitespace(s.rest))

\* Scanner.SkipValue: the scanner after the call (it returns an error that no
\* caller looks at, and leaves s.err alone)
SkipValue(s) ==
  LET upTo(rest, e) == IF e = 0 THEN <<>> ELSE Drop(rest, e)
      from(b, rest) ==
        CASE b \in {"{", "["} -> upTo(rest, compoundEnd(rest, 1, 1, FALSE, FALSE))
          [] b = QUOTE -> upTo(rest, stringEnd(rest, 1, FALSE))
          [] b \in {"t", "n"} -> Drop(rest, Min(3, Len(rest)))
          [] b = "f" -> Drop(rest, Min(4, Len(rest)))
          [] OTHER -> IF b = "-" \/ IsDigit(b) THEN Drop(rest, numberEnd(rest, 1)) ELSE rest
      skip(rest) == IF rest = <<>> THEN rest ELSE from(rest[1], Tail(rest))
  IN [s EXCEPT !.rest = skip(skipWhitespace(s.rest))]

\* Scanner.CopyValue with copyStringValue, copyCompoundValue and
\* copyNumberValue: the scanner after the call and the slices it wrote, one
\* for each Write
CopyValue(s) ==
  LET copied(b, rest, e) ==
        IF rest = <<>> THEN [rest |-> rest, writes |-> <<<<b>>>>]
        ELSE IF e = 0 THEN [rest |-> <<>>, writes |-> <<<<b>>, rest>>]
        ELSE [rest |-> Drop(rest, e), writes |-> <<<<b>>, SubSeq(rest, 1, e)>>]
      literal(b, rest, k) ==
        IF Len(rest) < k THEN [rest |-> <<>>, writes |-> <<>>]
        ELSE [rest |-> Drop(rest, k), writes |-> <<<<b>>, SubSeq(rest, 1, k)>>]
      number(b, rest, n) ==
        [rest |-> Drop(rest, n),
         writes |-> IF n > 0 THEN <<<<b>>, SubSeq(rest, 1, n)>> ELSE <<<<b>>>>]
      from(b, rest) ==
        CASE b \in {"{", "["} -> copied(b, rest, compoundEnd(rest, 1, 1, FALSE, FALSE))
          [] b = QUOTE -> copied(b, rest, stringEnd(rest, 1, FALSE))
          [] b \in {"t", "n"} -> literal(b, rest, 3)
          [] b = "f" -> literal(b, rest, 4)
          [] OTHER -> IF b = "-" \/ IsDigit(b) THEN number(b, rest, numberEnd(rest, 1))
                      ELSE [rest |-> rest, writes |-> <<>>]
      copy(rest) == IF rest = <<>> THEN [rest |-> rest, writes |-> <<>>]
                    ELSE from(rest[1], Tail(rest))
      done(r) == [s |-> [s EXCEPT !.rest = r.rest], writes |-> r.writes]
  IN done(copy(skipWhitespace(s.rest)))

\* escapeString, for the bytes the keys are made of
escapeString(key) ==
  LET RECURSIVE esc(_)
      esc(i) == IF i > Len(key) THEN <<>>
                ELSE (IF key[i] = QUOTE THEN <<BACKSLASH, QUOTE>>
                      ELSE IF key[i] = BACKSLASH THEN <<BACKSLASH, BACKSLASH>>
                      ELSE <<key[i]>>) \o esc(i + 1)
  IN esc(1)

\* writeValue, writeValueDirect: the bytes json.Marshal gives for a nil, an
\* int or a string of plain letters
writeValueDirect(value) ==
  CASE value.kind = "nil" -> <<"n", "u", "l", "l">>
    [] value.kind = "int" -> itoa(value.n)
    [] value.kind = "string" -> <<QUOTE>> \o value.s \o <<QUOTE>>

\* newProcessor, then the first statements of process and of processDirect;
\* rangeDesc stands for the order in which the addRules map is ranged over
newProcessor(bytes, rules, rangeDesc) ==
  LET keysOf(action) == {rules[i].Key : i \in {j \in 1..Len(rules) : rules[j].Action = action}}
      lastOf(action, key) ==
        rules[CHOOSE i \in 1..Len(rules) :
                /\ rules[i].Action = action /\ rules[i].Key = key
                /\ \A j \in (i + 1)..Len(rules) :
                     ~(rules[j].Action = action /\ rules[j].Key = key)].Value
  IN [scanner |-> NewScanner(bytes),
      setRules |-> [k \in keysOf(ActionSet) |-> lastOf(ActionSet, k)],
      addRules |-> [k \in keysOf(ActionAdd) |-> lastOf(ActionAdd, k)],
      removeKeys |-> keysOf(ActionRemove),
      seenKeys |-> {}, depth |-> 0, firstField |-> TRUE, pendingComma |-> FALSE,
      rangeDesc |-> rangeDesc]

\* insertAddFields (direct = FALSE) and insertAddFieldsDirect: the processor
\* after the call and the slices written
insertAddFields(ps, direct) ==
  LET keys == IF ps.rangeDesc THEN Reverse(SetToSeq(DOMAIN ps.addRules))
              ELSE SetToSeq(DOMAIN ps.addRules)
      field(key) ==
        (IF direct THEN <<<<QUOTE>>, escapeString(key), <<QUOTE, ":">>>>
         ELSE <<<<QUOTE>>, escapeString(key), <<QUOTE>>, <<":">>>>)
        \o <<writeValueDirect(ps.addRules[key])>>
      RECURSIVE range(_, _, _)
      range(i, first, writes) ==
        IF i > Len(keys) THEN [ps |-> [ps EXCEPT !.firstField = first], writes |-> writes]
        ELSE IF keys[i] \in ps.seenKeys THEN range(i + 1, first, writes)
        ELSE range(i + 1, FALSE,
                   writes \o (IF ~first THEN <<<<",">>>> ELSE <<>>) \o field(keys[i]))
  IN range(1, ps.firstField, <<>>)

\* The body of the loop of process and of processDirect for the token that
\* scanner.Next has just delivered: the processor after it and the slices
\* written, one for each Write.  The two loops differ in lastWasComma, which
\* process sets and never reads, and in insertAddFields.
processToken(ps, direct) ==
  LET token == ps.scanner.lastToken
      flush == IF ps.pendingComma THEN <<<<",">>>> ELSE <<>>
      comma == IF ~ps.firstField THEN <<<<",">>>> ELSE <<>>
      closed(r) == [ps |-> [r.ps EXCEPT !.pendingComma = FALSE],
                    writes |-> r.writes \o <<token.Raw>>]
      copied(r) == [ps |-> [ps EXCEPT !.seenKeys = @ \cup {token.Value}, !.firstField = FALSE,
                                      !.pendingComma = FALSE, !.scanner = r.s],
                    writes |-> comma \o <<token.Raw, <<":">>>> \o r.writes]
  IN CASE token.Type = "TokenObjectStart" ->
            [ps |-> [ps EXCEPT !.pendingComma = FALSE, !.depth = @ + 1,
                               !.firstField = IF ps.depth + 1 = 1 THEN TRUE ELSE @],
             writes |-> flush \o <<token.Raw>>]
       [] token.Type = "TokenObjectEnd" ->
            closed(IF ps.depth - 1 = 0
                   THEN insertAddFields([ps EXCEPT !.depth = @ - 1], direct)
                   ELSE [ps |-> [ps EXCEPT !.depth = @ - 1], writes |-> <<>>])
       [] token.Type = "TokenArrayStart" ->
            [ps |-> [ps EXCEPT !.pendingComma = FALSE, !.depth = @ + 1],
             writes |-> flush \o <<token.Raw>>]
       [] token.Type = "TokenArrayEnd" ->
            [ps |-> [ps EXCEPT !.depth = @ - 1, !.pendingComma = FALSE],
             writes |-> <<token.Raw>>]
       [] token.Type = "TokenKey" ->
            IF ps.depth = 1
            THEN IF token.Value \in ps.removeKeys
                 THEN [ps |-> [ps EXCEPT !.seenKeys = @ \cup {token.Value},
                                         !.scanner = SkipValue(ScannerNext(ps.scanner).s)],
                       writes |-> <<>>]
                 ELSE IF token.Value \in DOMAIN ps.setRules
                 THEN With(copied, [s |-> SkipValue(ScannerNext(ps.scanner).s),
                                    writes |-> <<writeValueDirect(ps.setRules[token.Value])>>])
                 ELSE With(copied, CopyValue(ScannerNext(ps.scanner).s))
            ELSE [ps |-> [ps EXCEPT !.pendingComma = FALSE], writes |-> flush \o <<token.Raw>>]
       [] token.Type = "TokenComma" ->
            IF ps.depth = 1 THEN [ps |-> [ps EXCEPT !.pendingComma = TRUE], writes |-> <<>>]
            ELSE [ps |-> ps, writes |-> <<token.Raw>>]
       [] token.Type = "TokenColon" -> [ps |-> ps, writes |-> <<token.Raw>>]
       [] OTHER -> [ps |-> [ps EXCEPT !.pendingComma = FALSE], writes |-> flush \o <<token.Raw>>]

\* One turn of `for p.scanner.Next()`: whether the loop goes on, the processor
\* after the turn and the slices written in it.
processTurn(ps, direct) ==
  LET turn(r) ==
        IF ~r.ok THEN [more |-> FALSE, ps |-> [ps EXCEPT !.scanner = r.s], writes |-> <<>>]
        ELSE [more |-> TRUE] @@ processToken([ps EXCEPT !.scanner = r.s], direct)
  IN With(turn, ScannerNext(ps.scanner))

RECURSIVE Flatten(_)
\* the bytes of a sequence of slices
Flatten(writes) == IF writes = <<>> THEN <<>> ELSE Head(writes) \o Flatten(Tail(writes))

\* processDirect: the bytes written to w and the error returned
RECURSIVE processDirectLoop(_, _)
processDirectLoop(ps, out) ==
  LET after(r) == IF ~r.more THEN [out |-> out, err |-> r.ps.scanner.err]
                  ELSE processDirectLoop(r.ps, out \o Flatten(r.writes))
  IN With(after, processTurn(ps, TRUE))

processDirect(bytes, rules, rangeDesc) ==
  processDirectLoop(newProcessor(bytes, rules, rangeDesc), <<>>)

\* New: the engine keeps the valid rules
New(rules) == [rules |-> SelectSeq(rules, IsValid)]

\* Engine.ProcessTo: without rules io.Copy, else processDirect
ProcessTo(e, bytes, rangeDesc) ==
  IF Len(e.rules) = 0 THEN [out |-> bytes, err |-> ErrNil]
  ELSE processDirect(bytes, e.rules, rangeDesc)

(***************************************************************************)
(* Engine.Process and Engine.ProcessTo as a state machine.  Process starts *)
(* a goroutine that writes to an io.Pipe; each Write hands its slice to    *)
(* the Reads of the consumer and returns when the slice is consumed, and   *)
(* the deferred Close makes the Read that follows return io.EOF.           *)
(***************************************************************************)
MaxRead == 8
ReadSizes == {1, MaxRead}

LegacyRuleSets ==
  {<<>>,
   <<Rule(<<>>, ActionRemove, NilValue)>>,
   <<Rule(KeyA, ActionRemove, NilValue)>>,
   <<Rule(KeyA, ActionSet, IntValue(7))>>,
   <<Rule(KeyB, ActionAdd, NilValue)>>,
   <<Rule(KeyB, ActionRemove, NilValue), Rule(KeyA, ActionAdd, IntValue(7))>>,
   <<Rule(KeyA, ActionAdd, NilValue), Rule(KeyB, ActionAdd, IntValue(7))>>,
   <<Rule(KeyB, ActionSet, NilValue), Rule(KeyA, ActionRemove, NilValue)>>}

\* inputs that are not the text of a document: the texts of the small
\* documents cut short (the empty input among them), and some others
CutTexts == UNION {{SubSeq(Text(d), 1, n) : n \in 0..(Len(Text(d)) - 1)} : d \in SmallDocs}
OtherTexts ==
  {<<"x">>, <<"-">>, <<"t", "r", "u">>, <<"t", "r", "u", "e">>, <<"n", "u", "l", "x">>,
   <<"f", "a", "l", "s", "e">>, <<" ", "{", "}", " ">>, <<"[", "1", ",", "]">>,
   <<"{", QUOTE, "a", QUOTE, ":", "x", "}">>, <<"{", QUOTE, "a", QUOTE, ":", "t", "r", "}">>,
   <<"{", QUOTE, "a", QUOTE, " ", ":", " ", "n", "u", "l", "l", " ", "}">>,
   <<"[", "t", "r", "u", "e", ",", " ", "-", "1", ".", "5", "]">>,
   <<"[", "1", ",", "x", ",", "1", "]">>}

LegacyInputs ==
  {[tree |-> Some(d), text |-> Text(d)] : d \in Docs}
  \cup {[tree |-> None, text |-> t] : t \in CutTexts \cup OtherTexts}

LegacyInit ==
  /\ ProcessInit(Scenario(Prim(Number1), <<>>, -1, FALSE, FALSE, TRUE))
  /\ pool = <<>>
  /\ pathArg = <<>>
  /\ op = "none"
  /\ parsed = None
  /\ made = None
  /\ prior = None
  /\ contentType = <<>>
  /\ engineRan = FALSE
  /\ ScanIdle
  /\ released = None
  /\ walk = None
  /\ \E in \in LegacyInputs, rs \in LegacyRuleSets, how \in {"Process", "ProcessTo"},
        desc \in BOOLEAN :
       /\ desc => Cardinality({i \in 1..Len(rs) : rs[i].Action = ActionAdd}) > 1
       /\ legacy = Some([tree |-> in.tree, text |-> in.text, e |-> New(rs), how |-> how,
                         phase |-> "new",
                         ps |-> newProcessor(in.text, New(rs).rules, desc),
                         queue |-> <<>>, closed |-> FALSE, delivered |-> <<>>, eof |-> FALSE,
                         ret |-> ErrNil])

\* e.ProcessTo(input, output)
CallProcessTo ==
  /\ legacy # None /\ legacy[1].phase = "new" /\ legacy[1].how = "ProcessTo"
  /\ \E r \in {ProcessTo(legacy[1].e, legacy[1].text, legacy[1].ps.rangeDesc)} :
       legacy' = Some([legacy[1] EXCEPT !.phase = "returned", !.delivered = r.out,
                                        !.ret = r.err])
  /\ UNCHANGED <<processVars, admissionVars, proxyVars, scanVars, released, walk>>

\* e.Process(input): without rules the reader returned is the input itself,
\* else the read end of the pipe the goroutine writes to
CallProcess ==
  /\ legacy # None /\ legacy[1].phase = "new" /\ legacy[1].how = "Process"
  /\ legacy' = Some(IF Len(legacy[1].e.rules) = 0
                    THEN [legacy[1] EXCEPT !.phase = "reading", !.closed = TRUE,
                                           !.queue = IF legacy[1].text = <<>> THEN <<>>
                                                     ELSE <<legacy[1].text>>]
                    ELSE [legacy[1] EXCEPT !.phase = "reading"])
  /\ UNCHANGED <<processVars, admissionVars, proxyVars, scanVars, released, walk>>

\* The goroutine of process that leaves the pipe open when the scanner
\* stopped on an error.
goroutineTurnCloseOnEOF(L) ==
  LET turned(r) ==
        IF r.more THEN [L EXCEPT !.ps = r.ps, !.queue = r.writes]
        ELSE [L EXCEPT !.ps = r.ps, !.closed = r.ps.scanner.err = ErrNil]
  IN With(turned, processTurn(L.ps, FALSE))

\* The goroutine of process, one turn of its loop: the Writes of the turn
\* are queued on the pipe; when Next returns false the deferred pw.Close runs.
goroutineTurn(L) ==
  LET turned(r) ==
        IF r.more THEN [L EXCEPT !.ps = r.ps, !.queue = r.writes]
        ELSE [L EXCEPT !.ps = r.ps, !.closed = TRUE]
  IN With(turned, processTurn(L.ps, FALSE))

\* the goroutine runs when it is not blocked in a Write
GoroutineTurn ==
  /\ legacy # None /\ legacy[1].phase = "reading"
  /\ ~legacy[1].closed /\ legacy[1].queue = <<>>
  /\ legacy' = Some(goroutineTurn(legacy[1]))
  /\ UNCHANGED <<processVars, admissionVars, proxyVars, scanVars, released, walk>>

\* the consumer's Read with a buffer of k bytes: bytes of the slice being
\* written, or io.EOF once the pipe is closed; it blocks otherwise
ConsumerRead ==
  /\ legacy # None /\ legacy[1].phase = "reading" /\ ~legacy[1].eof
  /\ \/ /\ legacy[1].queue # <<>>
        /\ \E k \in ReadSizes :
             \E n \in {Min(k, Len(Head(legacy[1].queue)))} :
               legacy' = Some([legacy[1] EXCEPT
                                 !.delivered = @ \o SubSeq(Head(legacy[1].queue), 1, n),
                                 !.queue = IF n = Len(Head(@)) THEN Tail(@)
                                           ELSE <<Drop(Head(@), n)>> \o Tail(@)])
     \/ /\ legacy[1].queue = <<>> /\ legacy[1].closed
        /\ legacy' = Some([legacy[1] EXCEPT !.eof = TRUE])
  /\ UNCHANGED <<processVars, admissionVars, proxyVars, scanVars, released, walk>>

LegacyNext == CallProcessTo \/ CallProcess \/ GoroutineTurn \/ ConsumerRead

\* the goroutine is scheduled, and the consumer keeps reading
LegacySpec ==
  LegacyInit /\ [][LegacyNext]_vars /\ WF_vars(GoroutineTurn) /\ WF_vars(ConsumerRead)

(***************************************************************************)
(* What the rules mean on the document tree: the nodes a path addresses    *)
(* and the tree each kind of rule should leave.                            *)
(***************************************************************************)
\* whether the segments match the complete path `steps` of a node, step by step
PathMatches(segs, steps) ==
  /\ Len(segs) = Len(steps)
  /\ \A i \in 1..Len(segs) :
       SegmentMatch(segs[i], steps[i].key, steps[i].isArray, steps[i].arrayIdx)

ChildStep(t, i) == IF t.k = "obj" THEN KeyStep(t.m[i].key) ELSE IdxStep(i - 1)

\* the paths of the nodes of t, t itself at `path`
RECURSIVE NodePaths(_, _)
NodePaths(t, path) ==
  {path} \cup UNION {NodePaths(t.m[i].v, Append(path, ChildStep(t, i))) : i \in 1..Len(t.m)}

\* the paths of the objects of t
RECURSIVE ObjectPaths(_, _)
ObjectPaths(t, path) ==
  (IF t.k = "obj" THEN {path} ELSE {})
  \cup UNION {ObjectPaths(t.m[i].v, Append(path, ChildStep(t, i))) : i \in 1..Len(t.m)}

\* the object of t at one of ObjectPaths
RECURSIVE NodeAt(_, _, _)
NodeAt(t, path, i) ==
  IF i > Len(path) THEN t
  ELSE LET j == CHOOSE k \in 1..Len(t.m) : ChildStep(t, k) = path[i]
       IN NodeAt(t.m[j].v, path, i + 1)

Front(segs) == SubSeq(segs, 1, Len(segs) - 1)
Last(segs) == segs[Len(segs)]

\* t without the members and elements whose path matches segs
RECURSIVE RefRemove(_, _, _)
RefRemove(t, path, segs) ==
  LET kept == SelectSeq([i \in 1..Len(t.m) |-> i],
                        LAMBDA i : ~PathMatches(segs, Append(path, ChildStep(t, i))))
  IN [t EXCEPT !.m = [j \in 1..Len(kept) |->
                        [t.m[kept[j]] EXCEPT
                           !.v = RefRemove(@, Append(path, ChildStep(t, kept[j])), segs)]]]

\* t with the nodes whose path matches segs replaced by the payload
RECURSIVE RefSet(_, _, _, _)
RefSet(t, path, segs, payload) ==
  IF PathMatches(segs, path) THEN Prim(payload)
  ELSE [t EXCEPT !.m = [i \in 1..Len(t.m) |->
                          [t.m[i] EXCEPT
                             !.v = RefSet(@, Append(path, ChildStep(t, i)), segs, payload)]]]

HasKey(t, key) == \E i \in 1..Len(t.m) : t.m[i].key = key

\* t with the member (last segment, payload) appended to the objects that the
\* front of segs addresses and that lack the key
RECURSIVE RefAdd(_, _, _, _)
RefAdd(t, path, segs, payload) ==
  LET below == [i \in 1..Len(t.m) |->
                  [t.m[i] EXCEPT !.v = RefAdd(@, Append(path, ChildStep(t, i)), segs, payload)]]
  IN IF t.k = "obj" /\ PathMatches(Front(segs), path) /\ ~HasKey(t, Last(segs).Value)
     THEN [t EXCEPT !.m = Append(below, Member(Last(segs).Value, Prim(payload)))]
     ELSE [t EXCEPT !.m = below]

\* the objects of t an Add rule is aimed at
AddTargets(t, segs) == {q \in ObjectPaths(t, <<>>) : PathMatches(Front(segs), q)}

\* whether a rule addresses something in t: a node for Remove and Set, the
\* object to add to for Add
Addresses(rule, t) ==
  IF rule.Action = ActionAdd THEN AddTargets(t, rule.segments) # {}
  ELSE \E q \in NodePaths(t, <<>>) : PathMatches(rule.segments, q)

\* Process ran with rules over the whole input, reader and sink without failure
CleanRun ==
  /\ pc = "done" /\ gets = 1 /\ result = ErrNil
  /\ c.w.limit = -1 /\ rpos = Len(input) /\ lastRead.err = ErrEOF

Output == c.w.buf

\* the run had exactly one rule, of the given action
OneRule(action) == Len(engine.rules) = 1 /\ engine.rules[1].Action = action

EndsInKey(segs) == Last(segs).Type \in {SegField, SegWildcard}

(***************************************************************************)
(* Claims                                                                  *)
(***************************************************************************)
\* C1: when no rule of a non-empty rule set addresses anything in the input
\* document, Process writes the input unchanged, byte for byte.
C1_NoMatchUnchanged ==
  (CleanRun /\ \A i \in 1..Len(engine.rules) : ~Addresses(engine.rules[i], doc))
    => Output = Bytes(input)

\* C2: for a Remove rule whose path ends in an object key, the output is the
\* well-formed text of the input tree without the addressed members, every
\* other member unchanged and in its original order.
C2_RemoveKey ==
  (CleanRun /\ OneRule(ActionRemove) /\ EndsInKey(engine.rules[1].segments))
    => Output = Text(RefRemove(doc, <<>>, engine.rules[1].segments))

\* C3: for a Set rule whose target exists, the output is the text of the input
\* tree with the value at the target replaced by exactly the payload.
C3_SetExisting ==
  (CleanRun /\ OneRule(ActionSet) /\ Addresses(engine.rules[1], doc))
    => Output = Text(RefSet(doc, <<>>, engine.rules[1].segments, payloadOf(engine.rules[1])))

\* C4: for an Add rule whose target object exists and lacks the key, the output
\* is the text of the input tree with the key and its payload added to the
\* target object, everything else unchanged.
C4_AddMissing ==
  (/\ CleanRun /\ OneRule(ActionAdd)
   /\ AddTargets(doc, engine.rules[1].segments) # {}
   /\ \A q \in AddTargets(doc, engine.rules[1].segments) :
        ~HasKey(NodeAt(doc, q, 1), Last(engine.rules[1].segments).Value))
    => Output = Text(RefAdd(doc, <<>>, engine.rules[1].segments, payloadOf(engine.rules[1])))

\* C5: for an Add rule whose target object already has the key, the output is
\* the input: the key appears once, with its original value.
C5_AddExisting ==
  (/\ CleanRun /\ OneRule(ActionAdd)
   /\ AddTargets(doc, engine.rules[1].segments) # {}
   /\ \A q \in AddTargets(doc, engine.rules[1].segments) :
        HasKey(NodeAt(doc, q, 1), Last(engine.rules[1].segments).Value))
    => Output = Bytes(input)

\* C6: a Set rule whose path addresses no node of the input (a missing key, an
\* array without an element at the position) leaves the input unchanged; Set
\* never creates a field or an element.
C6_SetMissing ==
  (CleanRun /\ OneRule(ActionSet) /\ ~Addresses(engine.rules[1], doc))
    => Output = Bytes(input)

\* C7: Remove and Set are applied only at nodes whose complete path from the
\* root matches the rule's path.
C7_FullPathOnly ==
  \A f \in c.g.fired : PathMatches(engine.rules[f.rule + 1].segments, f.at)

\* the output of feeding the first n input bytes to a fresh processor as one chunk
SingleChunkOutput(n) ==
  ProcessChunk(Config(GetPathProcessor(<<>>, engine.matcher).p, NewWriter(-1), c.rangeDesc),
               engine.matcher, SubSeq(input, 1, n)).w.buf

\* C8: however the input fed so far was split into non-empty chunks, the
\* output of one PathProcessor is the output of feeding it as a single chunk.
C8_ChunkingEquivalent ==
  (gets = 1 /\ c.w.limit = -1) => Output = SingleChunkOutput(c.g.fed)

\* C8, witness: a finished run that fed the input in several chunks and in
\* which a rule fired.
C8_Witness ==
  /\ pc = "done" /\ gets = 1 /\ c.w.limit = -1 /\ result = ErrNil
  /\ c.g.split /\ c.g.fed = Len(input) /\ c.g.fired # {} /\ Output # Bytes(input)

\* C9: when a write to the sink fails during Process with at least one rule,
\* Process returns that write error.
C9_WriteErrorReturned ==
  (pc = "done" /\ gets = 1 /\ c.w.failed) => result = ErrWrite

\* C10: when Read returns an error other than EOF, Process returns that error
\* after processing the bytes delivered with it; and whenever Process has
\* returned, the processor it acquired is back in the pool, returned once.
C10_ReadErrorAndRelease ==
  /\ puts <= gets
  /\ (pc # "done" => puts = 0)
  /\ (pc = "done" /\ gets = 1) =>
       /\ puts = 1 /\ ~held /\ Len(pool) = 1
       /\ lastRead.err = ErrRead => (result = ErrRead /\ c.g.fed = rpos)

\* C10, witness: Process returned after a Read that delivered bytes together
\* with an error, the bytes processed and the processor back in the pool.
C10_Witness ==
  /\ pc = "done" /\ gets = 1 /\ puts = 1
  /\ lastRead.err = ErrRead /\ lastRead.n > 0 /\ c.g.fed = rpos /\ result = ErrRead

\* C11: when a Remove rule and a Set rule both trigger on the same key or
\* array element, the node is removed whatever the order of the two rules: Set
\* never fires at a node that a Remove rule of the rule set addresses.
C11_RemoveWins ==
  \A f \in c.g.fired :
    f.action = ActionSet =>
      \A i \in 1..Len(engine.rules) :
        engine.rules[i].Action = ActionRemove => ~PathMatches(engine.rules[i].segments, f.at)

\* whether a segment and a step of a document path are of the same kind
SameKind(seg, step) == (seg.Type \in {SegArrayAll, SegArrayIdx}) = step.isArray

\* C12: segment kinds are respected at every step of a match: where a rule
\* fires, each of its segments faces (counting from the node upward) an object
\* key if it is a Field or Wildcard and an array element if it is an ArrayAny
\* or ArrayIndex.
C12_KindsRespected ==
  \A f \in c.g.fired :
    \A k \in 0..(Min(Len(engine.rules[f.rule + 1].segments), Len(f.at)) - 1) :
      SameKind(engine.rules[f.rule + 1].segments[Len(engine.rules[f.rule + 1].segments) - k],
               f.at[Len(f.at) - k])

\* whether the path begins with a dot, ends with one or has two adjacent dots
HasEmptySegment(p) ==
  /\ p # <<>>
  /\ \/ p[1] = "."
     \/ p[Len(p)] = "."
     \/ \E i \in 1..(Len(p) - 1) : p[i] = "." /\ p[i + 1] = "."

\* C13: ParsePath rejects with the error `empty segment` every path that
\* begins with a dot or contains an empty segment (two adjacent dots or a
\* trailing dot).
C13_EmptySegmentRejected ==
  op = "ParsePath" /\ HasEmptySegment(pathArg) => parsed[1].err = "empty segment"

\* whether the path is one bracketed segment: [x], x without brackets
IsBracketed(p) ==
  /\ Len(p) >= 2
  /\ p[1] = "[" /\ p[Len(p)] = "]"
  /\ \A i \in 2..(Len(p) - 1) : p[i] \notin {"[", "]"}

Inner(p) == SubSeq(p, 2, Len(p) - 1)

AllDigits(x) == x # <<>> /\ \A i \in 1..Len(x) : IsDigit(x[i])

\* C14: a bracketed segment [x] in which x is neither * nor made of base-10
\* digits only (a sign, letters, nothing at all) is rejected by ParsePath with
\* the error `invalid array index`.
C14_BracketedSegment ==
  op = "ParsePath" /\ IsBracketed(pathArg)
    /\ Inner(pathArg) # <<"*">> /\ ~AllDigits(Inner(pathArg))
    => parsed[1].err = "invalid array index"

RECURSIVE DotParts(_, _)
\* the parts of p between its dots, cur being the part read so far
DotParts(p, cur) ==
  IF p = <<>> THEN <<cur>>
  ELSE IF Head(p) = "." THEN <<cur>> \o DotParts(Tail(p), <<>>)
  ELSE DotParts(Tail(p), Append(cur, Head(p)))

IsFieldPart(x) == x # <<>> /\ \A i \in 1..Len(x) : x[i] \notin {".", "[", "]"}
IsIndexPart(x) == IsBracketed(x) /\ AllDigits(Inner(x))

\* the grammar: path := segment ("." segment)*,
\* segment := field | "*" | "[*]" | "[" digits "]"
Conforms(p) ==
  \A i \in 1..Len(DotParts(p, <<>>)) :
    LET x == DotParts(p, <<>>)[i]
    IN IsFieldPart(x) \/ x = ArrayAllValue \/ IsIndexPart(x)

\* whether the segment is the one the grammar gives the part
SegmentOf(x, seg) ==
  IF x = WildcardValue THEN seg.Type = SegWildcard
  ELSE IF x = ArrayAllValue THEN seg.Type = SegArrayAll
  ELSE IF IsIndexPart(x)
  THEN seg.Type = SegArrayIdx /\ seg.Index >= 0 /\ itoa(seg.Index) = stripZeros(Inner(x))
  ELSE seg.Type = SegField /\ seg.Value = x

\* whether ParsePath returned one segment per part of p, in order, each of the
\* kind of its part
ParsedAsWritten(p, r) ==
  /\ r.err = ""
  /\ Len(r.segments) = Len(DotParts(p, <<>>))
  /\ \A i \in 1..Len(r.segments) : SegmentOf(DotParts(p, <<>>)[i], r.segments[i])

\* whether every index written in p is within the range of int
IndicesInRange(p) ==
  \A i \in 1..Len(DotParts(p, <<>>)) :
    LET x == DotParts(p, <<>>)[i]
    IN IsIndexPart(x) => ~outOfRange(Inner(x), FALSE)

\* C15 as stated: for every path that conforms to the grammar, ParsePath
\* returns one segment per dot-separated part, in order, of the kind of the part.
C15_ConformingParsedAll ==
  op = "ParsePath" /\ Conforms(pathArg) => ParsedAsWritten(pathArg, parsed[1])

\* C15: for every path that conforms to the grammar and whose indices are
\* within the range of int, ParsePath returns one segment per dot-separated
\* part, in order: Field, Wildcard, ArrayAll or ArrayIdx with its index,
\* according to the form of the part.
C15_ConformingParsed ==
  op = "ParsePath" /\ Conforms(pathArg) /\ IndicesInRange(pathArg)
    => ParsedAsWritten(pathArg, parsed[1])

C15_Witness ==
  /\ op = "ParsePath"
  /\ pathArg = Dot(KeyA, Dot(Idx1, WildcardValue))
  /\ [i \in 1..Len(parsed[1].segments) |-> parsed[1].segments[i].Type]
       = <<SegField, SegArrayIdx, SegWildcard>>
  /\ parsed[1].segments[2].Index = 1

\* C16: NewPathEngineFromLegacy makes of every valid rule {key, action, value}
\* a path rule of exactly one Field segment whose name is the key, whatever
\* characters the key is made of.
C16_LegacyKeyLiteral ==
  op = "NewPathEngineFromLegacy" /\ IsValid(given[1]) =>
    /\ made[1].err = ""
    /\ Len(made[1].engine[1].rules) = 1
    /\ Len(made[1].engine[1].rules[1].segments) = 1
    /\ made[1].engine[1].rules[1].segments[1].Type = SegField
    /\ made[1].engine[1].rules[1].segments[1].Value = given[1].Key

\* the output of a second call of Process, on the output of the first: the
\* processor comes from the pool, the bytes arrive in one Read
SecondOutput ==
  Finish(ProcessChunk(Config(GetPathProcessor(pool, engine.matcher).p, NewWriter(-1), c.rangeDesc),
                      engine.matcher, Tag(Output, <<>>))).w.buf

OnlyRemove == \A i \in 1..Len(engine.rules) : engine.rules[i].Action = ActionRemove

\* C17: with a rule set of Remove rules only, running Process on the output
\* of a first run gives that same output.
C17_RemoveIdempotent ==
  CleanRun /\ OnlyRemove => SecondOutput = Output

\* none of the rules given to the constructor has a path
NoPaths == \A i \in 1..Len(given) : given[i].Path = <<>>

\* C18: with an empty rule set, or one whose rules all have an empty path, a
\* Process that returns without error has written the input, byte for byte.
C18_EmptyRulesCopy ==
  pc = "done" /\ NoPaths /\ result = ErrNil => Output = Bytes(input)

C18_Witness ==
  /\ pc = "done" /\ result = ErrNil
  /\ Len(given) = 2 /\ NoPaths
  /\ doc.k = "obj" /\ Len(doc.m) = 2
  /\ Output = Bytes(input)

Invalid(p) == p # <<>> /\ ParsePath(p).err # ""

\* C19: NewPathEngine given a rule whose path fails to parse returns an error
\* and no engine; AddRule with a path that fails to parse returns an error
\* and leaves the rule list and the matcher of the engine as they were.
C19_InvalidPathNoEngine ==
  /\ (op = "NewPathEngine" /\ \E i \in 1..Len(given) : Invalid(given[i].Path))
       => (made[1].err # "" /\ made[1].engine = None)
  /\ (op = "AddRule" /\ Invalid(pathArg))
       => (made[1].err # "" /\ made[1].engine = prior)

C19_Witness ==
  /\ op = "AddRule" /\ Invalid(pathArg)
  /\ Len(prior[1].rules) = 2
  /\ made[1].err = "invalid array index"
  /\ made[1].engine = prior

\* C20: the proxy runs the engine on a payload only when the group has at
\* least one rule for the direction and the Content-Type of the payload
\* contains "json"; otherwise the payload passes untouched.
C20_ContentTypeGate ==
  op \in {"handleNormalResponse", "applyInboundRules"} =>
    /\ engineRan => (Len(given) >= 1 /\ Contains(contentType, Json))
    /\ ~engineRan => Output = Bytes(input)

\* the 0-based offsets of the structural bytes of the slice
StructuralOffsets(bytes) == {i - 1 : i \in {j \in 1..Len(bytes) : isStructural(bytes[j])}}

\* C21: ScanStructural returns min(k, capacity), k being the number of
\* structural bytes of the slice, and writes the ascending offsets of the
\* first min(k, capacity) of them; so the block path with its tail and the
\* scalar scans of both builds give the same result.
C21_ScanStructural ==
  scanned # None =>
    /\ scanned[1].count = Min(StructuralCount(data), capacity)
    /\ Len(scanned[1].positions) = scanned[1].count
    /\ \A j \in 1..scanned[1].count :
         /\ scanned[1].positions[j] \in StructuralOffsets(data)
         /\ Cardinality({o \in StructuralOffsets(data) : o < scanned[1].positions[j]}) = j - 1

C21_Witness ==
  /\ scanned # None /\ scanned[1].build = "amd64" /\ hasAVX2
  /\ Len(data) > 2 * BlockSize
  /\ capacity > 2 * BlockSize /\ capacity < StructuralCount(data)
  /\ scanned[1].count = capacity
  /\ scanned[1].positions[capacity] = capacity - 1

\* C22: after the constructor has returned, no engine operation changes the
\* trie edges, the failure links or the output lists of the matcher.
C22_MatcherImmutable ==
  op = "AddRule" =>
    /\ made[1].engine[1].matcher.nodes = prior[1].matcher.nodes
    /\ made[1].engine[1].matcher.fail = prior[1].matcher.fail
    /\ made[1].engine[1].matcher.output = prior[1].matcher.output

\* a run of a freshly constructed processor over the first n input bytes
FreshRun(n) ==
  LET fresh == Config(Reset([NewPathProcessor EXCEPT
                               !.matcherSet = TRUE,
                               !.hasAddRules = \E i \in 1..Len(engine.rules) :
                                                  engine.rules[i].Action = ActionAdd]),
                      NewWriter(-1), c.rangeDesc)
  IN IF n = 0 THEN fresh ELSE ProcessChunk(fresh, engine.matcher, SubSeq(input, 1, n))

\* C23: a processor taken from the pool behaves as a freshly constructed one,
\* whatever state its last user released it in: while Process reads, the
\* processor is in the state a fresh one would be in, and the output is the
\* output of a fresh one.
C23_PooledAsFresh ==
  /\ pc = "read" => (c.p = FreshRun(rpos).p /\ Output = FreshRun(rpos).w.buf)
  /\ (pc = "done" /\ gets = 1 /\ result = ErrNil) => Output = Finish(FreshRun(rpos)).w.buf

C23_Witness ==
  /\ pc = "done" /\ result = ErrNil /\ gets = 1
  /\ released # None
  /\ released[1].skipping /\ released[1].setValue # None
  /\ released[1].pathStack # <<>>
  /\ c.g.fired # {} /\ Output # Bytes(input)

\* an object whose members are all primitive values
FlatObject(t) == t.k = "obj" /\ \A i \in 1..Len(t.m) : t.m[i].v.k = "prim"

\* some member value of the object is a string holding an escaped quote
HasEscapedQuote(t) == \E i \in 1..Len(t.m) : t.m[i].v = Prim(StringEsc)

\* the run had one Remove rule, of a single Field segment
OneFieldRemove ==
  /\ OneRule(ActionRemove)
  /\ Len(engine.rules[1].segments) = 1 /\ engine.rules[1].segments[1].Type = SegField

\* C26: outside skipping mode a quote escaped by a backslash does not close
\* its string, so the rules on the keys that follow the string are applied:
\* with a Remove rule on a top-level key of an object of primitive members,
\* one of them a string with an escaped quote, the output is the object
\* without the addressed member.
C26_EscapedQuote ==
  (CleanRun /\ OneFieldRemove /\ FlatObject(doc) /\ HasEscapedQuote(doc))
    => Output = Text(RefRemove(doc, <<>>, engine.rules[1].segments))

RECURSIVE openScan(_, _, _, _, _)
\* Of the bytes written so far: for each container still open, whether content
\* has been written into it (the flags, outermost first).
openScan(out, i, stack, inStr, esc) ==
  LET mark(s) == IF Len(s) > 0 THEN [s EXCEPT ![Len(s)] = TRUE] ELSE s
  IN IF i > Len(out) THEN stack
     ELSE IF inStr
     THEN IF esc THEN openScan(out, i + 1, stack, TRUE, FALSE)
          ELSE IF out[i] = BACKSLASH THEN openScan(out, i + 1, stack, TRUE, TRUE)
          ELSE openScan(out, i + 1, stack, out[i] # QUOTE, FALSE)
     ELSE IF out[i] = QUOTE THEN openScan(out, i + 1, mark(stack), TRUE, FALSE)
     ELSE IF out[i] \in {"{", "["} THEN openScan(out, i + 1, Append(mark(stack), FALSE), FALSE, FALSE)
     ELSE IF out[i] \in {"}", "]"} THEN openScan(out, i + 1, Pop(stack), FALSE, FALSE)
     ELSE IF out[i] \in {",", ":"} THEN openScan(out, i + 1, stack, FALSE, FALSE)
     ELSE openScan(out, i + 1, mark(stack), FALSE, FALSE)

\* a field has been emitted into the innermost object open in the output
EmittedIntoTop ==
  LET s == openScan(Output, 1, <<>>, FALSE, FALSE)
  IN Len(s) > 0 /\ s[Len(s)]

\* the next byte Process hands to the processor is a `,` or a `}` that is
\* handled as an event while an object is on top of the path stack
ObjectEventNext ==
  /\ pc = "read" /\ rpos < Len(input) /\ input[rpos + 1].ch \in {",", "}"}
  /\ c.w.limit = -1
  /\ ~c.p.skipping /\ ~c.p.inString
  /\ Len(c.p.pathStack) > 0 /\ ~Top(c).isArray

\* C27: at every `,` and `}` event handled while an object is on top of the
\* path stack, firstField is false exactly when a field has already been
\* emitted into that object.
C27_FirstFieldInnermost ==
  ObjectEventNext => (c.p.firstField <=> ~EmittedIntoTop)

\* the same, for the events before which no nested container was closed
C27_NoNestedClose ==
  (ObjectEventNext /\ \A i \in 1..rpos : input[i].ch \notin {"}", "]"})
    => (c.p.firstField <=> ~EmittedIntoTop)

\* the segments match the last Len(segs) steps of the walked path
SuffixMatches(segs, steps) ==
  /\ Len(segs) <= Len(steps)
  /\ PathMatches(segs, SubSeq(steps, Len(steps) - Len(segs) + 1, Len(steps)))

\* the rules of the engine that replace or drop a value
ValueRules == {i \in 1..Len(engine.rules) : engine.rules[i].Action \in {ActionRemove, ActionSet}}

\* no container around the node at `steps` is taken by a Remove or Set rule,
\* so the processor walks into each of them and pushes its frame
WalkedInto(steps) ==
  \A j \in 0..(Len(steps) - 1) : \A i \in ValueRules :
     ~SuffixMatches(engine.rules[i].segments, SubSeq(steps, 1, j))

\* the byte last handed to the processor is the `[` or `,` after which an
\* element of an array begins, the array being one the processor walked into
ElementBegins ==
  /\ pc = "read" /\ rpos >= 1 /\ rpos < Len(input) /\ c.w.limit = -1
  /\ input[rpos].ch \in {"[", ","} /\ input[rpos + 1].ch # "]"
  /\ Len(input[rpos].at) > 0 /\ Last(input[rpos].at).isArray
  /\ WalkedInto(input[rpos].at)

\* C28: when the k-th element of an array begins, the array frame's arrayIdx
\* is k and the element match for index k has been performed (a Remove or
\* Set rule whose path matches the element has put the processor in skip
\* mode), whatever rules fired on the earlier elements.
C28_ArrayIndexTracksElement ==
  ElementBegins =>
    /\ Len(c.p.pathStack) > 0 /\ Top(c).isArray
    /\ Top(c).arrayIdx = Last(input[rpos].at).arrayIdx
    /\ (\E i \in ValueRules : PathMatches(engine.rules[i].segments, input[rpos].at))
         => c.p.skipping

\* the input has no backslash
NoEscapes == \A i \in 1..Len(input) : input[i].ch # BACKSLASH

\* the same for inputs without escapes, when no Remove rule fired on an
\* earlier element
C28_NoEarlierRemove ==
  (ElementBegins /\ NoEscapes
     /\ \A r \in c.g.fired : r.action = ActionRemove => r.at = input[rpos].at)
    => /\ Len(c.p.pathStack) > 0 /\ Top(c).isArray
       /\ Top(c).arrayIdx = Last(input[rpos].at).arrayIdx

\* C28 on the inputs without escapes
C28_WithoutEscapes ==
  NoEscapes => C28_ArrayIndexTracksElement

\* the run had one Remove rule whose path ends in an array segment
OneElementRemove ==
  /\ OneRule(ActionRemove)
  /\ Len(engine.rules[1].segments) > 0
  /\ Last(engine.rules[1].segments).Type \in {SegArrayAll, SegArrayIdx}

\* t without the members and elements whose path ends in steps that match segs
RECURSIVE RefRemoveSuffix(_, _, _)
RefRemoveSuffix(t, path, segs) ==
  LET kept == SelectSeq([i \in 1..Len(t.m) |-> i],
                        LAMBDA i : ~SuffixMatches(segs, Append(path, ChildStep(t, i))))
  IN [t EXCEPT !.m = [j \in 1..Len(kept) |->
                        [t.m[kept[j]] EXCEPT
                           !.v = RefRemoveSuffix(@, Append(path, ChildStep(t, kept[j])), segs)]]]

\* C29: with a Remove rule whose path ends in `[*]` or `[n]`, the output is
\* the document without the elements the rule addresses: the other elements
\* in their order, separated by single commas.
C29_ElementRemove ==
  (CleanRun /\ OneElementRemove /\ NoEscapes)
    => Output = Text(RefRemoveSuffix(doc, <<>>, engine.rules[1].segments))

\* the same when the rule addresses no element of the array or of an array in it
C29_NothingAddressed ==
  (CleanRun /\ OneElementRemove /\ NoEscapes /\ doc.k = "arr"
     /\ \A q \in NodePaths(doc, <<>>) : ~SuffixMatches(engine.rules[1].segments, q))
    => Output = Text(doc)

\* the rules (0-based indices) whose action the last Match of the walk returned
Returned == {walk[1].actions[j].Index : j \in 1..Len(walk[1].actions)}

\* the rules whose path matches the steps walked from the root
Matching ==
  {i \in 0..(Len(walk[1].m.rules) - 1) : PathMatches(walk[1].m.rules[i + 1].segments, walk[1].steps)}

\* C30: after any sequence of steps walked from the root, the action list
\* Match returned holds every rule whose path matches those steps.
C30_MatchReturnsAllMatching ==
  (walk # None /\ Len(walk[1].steps) > 0) => Matching \subseteq Returned

\* the same for the matchers of one rule
C30_OneRule ==
  (walk # None /\ Len(walk[1].steps) > 0 /\ Len(walk[1].m.rules) = 1) => Matching \subseteq Returned

\* The tree the legacy rules leave when they are applied to the members of
\* the top-level object and to nothing else: the members with a Remove rule
\* dropped, the values of those with a Set rule replaced, the Add rules
\* whose key the object lacks appended (in the order of the rules, or in the
\* opposite order when desc).
TopLevelOnly(t, rules, desc) ==
  LET has(action, key) == \E i \in 1..Len(rules) : rules[i].Action = action /\ rules[i].Key = key
      valueOf(action, key) ==
        rules[CHOOSE i \in 1..Len(rules) : rules[i].Action = action /\ rules[i].Key = key].Value
      kept == SelectSeq(t.m, LAMBDA mb : ~has(ActionRemove, mb.key))
      changed == [i \in 1..Len(kept) |->
                    IF has(ActionSet, kept[i].key)
                    THEN Member(kept[i].key, Prim(writeValueDirect(valueOf(ActionSet, kept[i].key))))
                    ELSE kept[i]]
      adds == SelectSeq(rules, LAMBDA r : r.Action = ActionAdd /\ ~HasKey(t, r.Key))
      added == [i \in 1..Len(adds) |-> Member(adds[i].Key, Prim(writeValueDirect(adds[i].Value)))]
  IN IF t.k # "obj" THEN t
     ELSE [t EXCEPT !.m = changed \o (IF desc THEN Reverse(added) ELSE added)]

\* a run of the legacy engine with rules
LegacyRun == legacy # None /\ Len(legacy[1].e.rules) > 0

\* the run is over: ProcessTo has returned, or the consumer of Process has
\* received io.EOF
LegacyOver == LegacyRun /\ (legacy[1].phase = "returned" \/ legacy[1].eof)

\* C24: the legacy engine applies its rules to the keys of the top-level
\* object only: the output is the document with the top-level members
\* removed, set or added, every other part as it was (nested members, the
\* elements of arrays, a top-level array).
C24_TopLevelOnly ==
  (LegacyOver /\ legacy[1].tree # None)
    => \E desc \in BOOLEAN :
         legacy[1].delivered = Text(TopLevelOnly(legacy[1].tree[1], legacy[1].e.rules, desc))

\* the same for the documents that are an object
C24_ObjectDocuments ==
  (LegacyOver /\ legacy[1].tree # None /\ legacy[1].tree[1].k = "obj")
    => \E desc \in BOOLEAN :
         legacy[1].delivered = Text(TopLevelOnly(legacy[1].tree[1], legacy[1].e.rules, desc))

\* the consumer reads the pipe of a Process with rules
Piped == LegacyRun /\ legacy[1].phase = "reading"

\* the consumer has received io.EOF, and before it all the output of the
\* processor: the bytes ProcessTo writes for the same input
GotEOF ==
  /\ LegacyRun /\ legacy[1].eof
  /\ legacy[1].delivered = ProcessTo(legacy[1].e, legacy[1].text, legacy[1].ps.rangeDesc).out

\* C25: for every finite input and a non-empty rule set, the consumer that
\* keeps reading the reader Process returned eventually receives io.EOF,
\* having received all the output of the processor, also when the scanner
\* stops on an error; for the empty input the output is empty, so no byte
\* comes before io.EOF.
C25_ConsumerReceivesEOF == Piped ~> GotEOF

C25_Witness ==
  /\ GotEOF
  /\ legacy[1].ps.scanner.err = ErrScan
  /\ legacy[1].delivered # <<>>
  /\ legacy[1].ps.scanner.rest # <<>>

RECURSIVE nesting(_, _, _, _, _)
\* The nesting depth after the first n bytes of the input: the `{` and `[`
\* minus the `}` and `]` among them, those inside strings left out.
nesting(n, i, inStr, esc, depth) ==
  IF i > n THEN depth
  ELSE IF inStr
  THEN IF esc THEN nesting(n, i + 1, TRUE, FALSE, depth)
       ELSE IF input[i].ch = BACKSLASH THEN nesting(n, i + 1, TRUE, TRUE, depth)
       ELSE nesting(n, i + 1, input[i].ch # QUOTE, FALSE, depth)
  ELSE IF input[i].ch = QUOTE THEN nesting(n, i + 1, TRUE, FALSE, depth)
  ELSE IF input[i].ch \in {"{", "["} THEN nesting(n, i + 1, FALSE, FALSE, depth + 1)
  ELSE IF input[i].ch \in {"}", "]"} THEN nesting(n, i + 1, FALSE, FALSE, depth - 1)
  ELSE nesting(n, i + 1, FALSE, FALSE, depth)

\* the containers the processor has open: the frames of the path stack and,
\* in skip mode, the containers open inside the value being skipped
OpenContainers == Len(c.p.pathStack) + (IF c.p.skipping THEN c.p.skipState.depth ELSE 0)

\* Process took a processor and has handed it the first rpos bytes of the input
Handled == gets = 1 /\ pc \in {"read", "done"}

\* C31: after every structural event the path stack is as long as the input
\* handled so far has containers open (`{` and `[` minus `}` and `]`); the
\* containers inside a value being skipped are counted by the skip depth.
C31_DepthCorrect ==
  Handled => OpenContainers = nesting(rpos, 1, FALSE, FALSE, 0)

\* the same on the inputs without a backslash
C31_WithoutEscapes ==
  (Handled /\ NoEscapes) => OpenContainers = nesting(rpos, 1, FALSE, FALSE, 0)

RECURSIVE openPaths(_, _, _, _, _)
\* The document paths of the containers open after the first n bytes of the
\* input, outermost first.
openPaths(n, i, inStr, esc, stack) ==
  IF i > n THEN stack
  ELSE IF inStr
  THEN IF esc THEN openPaths(n, i + 1, TRUE, FALSE, stack)
       ELSE IF input[i].ch = BACKSLASH THEN openPaths(n, i + 1, TRUE, TRUE, stack)
       ELSE openPaths(n, i + 1, input[i].ch # QUOTE, FALSE, stack)
  ELSE IF input[i].ch = QUOTE THEN openPaths(n, i + 1, TRUE, FALSE, stack)
  ELSE IF input[i].ch = "{" THEN openPaths(n, i + 1, FALSE, FALSE, Append(stack, input[i].at))
  ELSE IF input[i].ch = "[" THEN openPaths(n, i + 1, FALSE, FALSE, Append(stack, Front(input[i].at)))
  ELSE IF input[i].ch \in {"}", "]"} THEN openPaths(n, i + 1, FALSE, FALSE, Pop(stack))
  ELSE openPaths(n, i + 1, FALSE, FALSE, stack)

RECURSIVE walkFrom(_, _, _, _)
\* the node reached from `node` by one Match per step of steps[i..], each
\* from the node the Match before it returned
walkFrom(m, node, steps, i) ==
  IF i > Len(steps) THEN node
  ELSE walkFrom(m, Some(Match(m, node, steps[i].key, steps[i].isArray, steps[i].arrayIdx).node),
                steps, i + 1)

\* every frame of the path stack carries the node that the Match of its own
\* key or element returned, the top-level frame the root
FramesCarryOwnNode ==
  LET open == openPaths(rpos, 1, FALSE, FALSE, <<>>)
  IN \A i \in 1..Min(Len(c.p.pathStack), Len(open)) :
       c.p.pathStack[i].acNode = walkFrom(engine.matcher, Some(Root), open[i], 1)

\* C32: at every point of a run each frame on the path stack carries the
\* matcher node returned by the match of the key or array element whose value
\* the frame's container is (the root for the top-level container).
C32_FrameNode ==
  Handled => FramesCarryOwnNode

\* the same on the inputs without a backslash
C32_WithoutEscapes ==
  (Handled /\ NoEscapes) => FramesCarryOwnNode

\* the same when, besides, no Remove rule has fired
C32_NoRemoveFired ==
  (Handled /\ NoEscapes /\ \A r \in c.g.fired : r.action # ActionRemove) => FramesCarryOwnNode

\* the closing brace of the object at path q is among the bytes handled so far
ClosedSoFar(q) == \E i \in 1..rpos : input[i].ch = "}" /\ input[i].at = q

\* how many times the injection x has been written
TimesEmitted(x) == Cardinality({i \in 1..Len(c.g.emitted) : c.g.emitted[i] = x})

\* every field written was queued at the `{` of the object at whose `}` it is
\* written; every field queued has been written once if its object is closed
\* and not at all if it is open; the queues left belong to open objects
InjectionsInPlace ==
  /\ \A i \in 1..Len(c.g.emitted) : c.g.emitted[i] \in c.g.queued
  /\ \A x \in c.g.queued : TimesEmitted(x) = (IF ClosedSoFar(x.at) THEN 1 ELSE 0)
  /\ \A d \in DOMAIN c.p.pendingAdds :
       /\ d < Len(c.p.pathStack) /\ ~c.p.pathStack[d + 1].isArray
       /\ \E x \in c.g.queued : x.depth = d /\ ~ClosedSoFar(x.at)

\* C33: every Add field queued when an object is entered is written exactly
\* once, at the closing brace of that same object and of no other, and no
\* queue is left for the depth of an object that has closed.
C33_InjectedAtOwnClose ==
  Handled => InjectionsInPlace

\* the same on the inputs without a backslash
C33_WithoutEscapes ==
  (Handled /\ NoEscapes) => InjectionsInPlace

\* The processor is skipping a number (the byte before is a digit, no
\* container or string of the skipped value is open) and the next byte of the
\* input is the `}` or `]` that ends it.
SkippedPrimitiveEnds ==
  /\ pc = "read" /\ c.w.limit = -1
  /\ rpos >= 1 /\ rpos < Len(input)
  /\ IsDigit(input[rpos].ch) /\ input[rpos + 1].ch \in {"}", "]"}
  /\ c.p.skipping /\ c.p.skipState = ZeroSkipState

\* what a step appends to the output
Appended == SubSeq(c'.w.buf, Len(c.w.buf) + 1, Len(c'.w.buf))

\* The step pops one frame and appends the pending Set payload (if any), then
\* the fields injected at a closing brace (if any), then the terminator, once.
TerminatorHandled ==
  LET payload == IF c.p.setValue # None THEN c.p.setValue[1] ELSE <<>>
      term == input[rpos + 1].ch
      n == Len(Appended)
  IN /\ Len(c'.p.pathStack) = Len(c.p.pathStack) - 1
     /\ ~c'.p.skipping /\ c'.p.setValue = None
     /\ SubSeq(c'.w.buf, 1, Len(c.w.buf)) = c.w.buf
     /\ n >= Len(payload) + 1
     /\ SubSeq(Appended, 1, Len(payload)) = payload
     /\ Appended[n] = term
     /\ \A i \in 1..(n - 1) : Appended[i] # term
     /\ (c.p.pendingAdds = <<>> => n = Len(payload) + 1)

\* C34: when the `}` or `]` that ends a skipped number is handed to the
\* processor, it is handled as a normal structural event: one frame is popped
\* and the terminator is written once, after the pending Set payload.
C34_TerminatorReprocessed ==
  [][(SkippedPrimitiveEnds /\ rpos' = rpos + 1) => TerminatorHandled]_vars

\* a Set rule fired on a number, and the last Read delivered the one byte `}`
\* that ends it: the output ends with the payload and the brace
C34_Witness ==
  /\ gets = 1 /\ c.w.limit = -1 /\ lastRead.n = 1 /\ rpos >= 2
  /\ input[rpos].ch = "}" /\ IsDigit(input[rpos - 1].ch)
  /\ \E f \in c.g.fired : f.at = input[rpos - 1].at /\ f.action = ActionSet
  /\ Len(Output) >= 2
  /\ SubSeq(Output, Len(Output) - 1, Len(Output)) = Payload9 \o <<"}">>
  /\ Len(c.p.pathStack) = nesting(rpos, 1, FALSE, FALSE, 0)

IsPrefix(q, path) == Len(q) <= Len(path) /\ SubSeq(path, 1, Len(q)) = q

RECURSIVE stringOpen(_, _, _, _)
\* whether a string is open after the bytes i..n of the input
stringOpen(n, i, inStr, esc) ==
  IF i > n THEN inStr
  ELSE IF inStr
  THEN IF esc THEN stringOpen(n, i + 1, TRUE, FALSE)
       ELSE IF input[i].ch = BACKSLASH THEN stringOpen(n, i + 1, TRUE, TRUE)
       ELSE stringOpen(n, i + 1, input[i].ch # QUOTE, FALSE)
  ELSE stringOpen(n, i + 1, input[i].ch = QUOTE, FALSE)

\* the nodes on which a Remove or Set rule has fired: the values to skip
Taken == {f.at : f \in {x \in c.g.fired : x.action \in {ActionRemove, ActionSet}}}

\* the position of the last and of the first byte of the value at path q
ValueEnd(q) ==
  CHOOSE i \in 1..Len(input) :
    IsPrefix(q, input[i].at) /\ \A j \in (i + 1)..Len(input) : ~IsPrefix(q, input[j].at)

ValueStart(q) == ValueEnd(q) - Len(Text(NodeAt(doc, q, 1))) + 1

\* a number, true, false or null: a value that ends at the `,`, `}` or `]` after it
EndsAtTerminator(q) == NodeAt(doc, q, 1).k = "prim" /\ NodeAt(doc, q, 1).s[1] # QUOTE

\* the number of bytes after which the skip of the value at q is over
SkipEnd(q) == ValueEnd(q) + (IF EndsAtTerminator(q) THEN 1 ELSE 0)

\* the value at q is being skipped: its rule has fired, its end is not reached
InsideSkipped(q) == rpos >= ValueStart(q) - 1 /\ rpos < SkipEnd(q)

\* every rule that fired so far fired on a value of the document
FiredOnValues == \A q \in Taken : q \in NodePaths(doc, <<>>)

\* The processor is in skip mode exactly from the firing of a rule to the end
\* of the value it fired on, and in between the skip depth and the string flag
\* are those of the bytes of the value handled so far.
SkipTracksValue ==
  /\ c.p.skipping <=> \E q \in Taken : InsideSkipped(q)
  /\ \A q \in Taken :
       InsideSkipped(q) =>
         /\ c.p.skipState.depth = nesting(rpos, ValueStart(q), FALSE, FALSE, 0)
         /\ c.p.skipState.inString = stringOpen(rpos, ValueStart(q), FALSE, FALSE)

\* A Read that delivers only bytes of the value being skipped writes nothing,
\* but for the Set payload when it delivers the last byte of a string or
\* container.
SkipWritesNothing ==
  \A q \in Taken :
    (InsideSkipped(q) /\ c.w.limit = -1 /\ rpos' > rpos /\ rpos' <= ValueEnd(q)) =>
      c'.w.buf = c.w.buf \o (IF rpos' = ValueEnd(q) /\ ~EndsAtTerminator(q) /\ c.p.setValue # None
                             THEN c.p.setValue[1] ELSE <<>>)

\* C35: while a value is skipped none of its bytes is written, and the skip
\* ends exactly at the end of the value: structural bytes and escaped quotes
\* inside its strings neither change the skip depth nor end the skip, however
\* the value is split across chunks.
C35_SkipExact ==
  /\ []((Handled /\ FiredOnValues) => SkipTracksValue)
  /\ [][(pc = "read" /\ FiredOnValues) => SkipWritesNothing]_vars

\* a Set rule fired on a string with an escaped quote and a brace inside; the
\* string came in more than one chunk, its last byte in the last Read; the
\* skip is over and the payload stands in its place
C35_Witness ==
  /\ gets = 1 /\ c.w.limit = -1 /\ c.g.split /\ ~c.p.skipping
  /\ \E q \in Taken :
       /\ q \in NodePaths(doc, <<>>) /\ NodeAt(doc, q, 1) = Prim(StringEscBrace)
       /\ rpos = ValueEnd(q) /\ lastRead.n < Len(StringEscBrace)
  /\ \E f \in c.g.fired : f.action = ActionSet
  /\ Len(Output) >= 1 /\ Output[Len(Output)] = "9"

RECURSIVE strayComma(_, _, _, _, _)
\* Whether the bytes out[i..] hold, outside strings, a comma directly after an
\* opening brace, directly before a closing brace, or directly after a comma;
\* prev is the byte before out[i] when that byte stands outside a string.
strayComma(out, i, inStr, esc, prev) ==
  IF i > Len(out) THEN FALSE
  ELSE IF inStr
  THEN IF esc THEN strayComma(out, i + 1, TRUE, FALSE, <<>>)
       ELSE IF out[i] = BACKSLASH THEN strayComma(out, i + 1, TRUE, TRUE, <<>>)
       ELSE strayComma(out, i + 1, out[i] # QUOTE, FALSE, <<>>)
  ELSE \/ prev = <<"{">> /\ out[i] = ","
       \/ prev = <<",">> /\ out[i] \in {"}", ","}
       \/ strayComma(out, i + 1, out[i] = QUOTE, FALSE, <<out[i]>>)

\* every rule of the engine has a path that ends in an object key
KeyRulesOnly ==
  \A i \in 1..Len(engine.rules) :
    Len(engine.rules[i].segments) > 0 /\ EndsInKey(engine.rules[i].segments)

StructuralSoFar == StructuralCount(Bytes(SubSeq(input, 1, rpos)))

\* C37: with the default chunk size and positions capacity, every structural
\* byte of every chunk Process hands to ProcessChunk is handled as a
\* structural event.
C37_AllStructuralHandled ==
  Handled => c.g.events = StructuralSoFar

\* the same for the chunks that hold no more structural bytes than the
\* positions buffer has entries
C37_SparseChunks ==
  (Handled /\ StructuralCount(Bytes(input)) <= c.p.positionsCap) => c.g.events = StructuralSoFar

\* what Process writes for the input with the engine NewPathEngine(given)
ConstructedOutput ==
  ProcessAll(NewPathEngine(given).engine[1], Config(NewPathProcessor, NewWriter(-1), c.rangeDesc),
             input).w.buf

\* Process has run to its end on the engine grown by AddRule from the list
GrownRun ==
  /\ op = "AddRule" /\ Len(engine.rules) = Len(given)
  /\ pc = "done" /\ result = ErrNil /\ rpos = Len(input)

\* C38: the engine made by NewPathEngine(nil) and one AddRule for each rule
\* of a list, in order, writes for every input what the engine made by
\* NewPathEngine of that list writes.
C38_AddRuleAsConstructed ==
  GrownRun => Output = ConstructedOutput

\* the same for the lists of one rule
C38_OneRule ==
  (GrownRun /\ Len(given) = 1) => Output = ConstructedOutput

\* the injection x is the field of an Add rule whose path without its last
\* segment matches, segment by segment, the path of the object it is queued for
OwnObject(x) ==
  \E i \in 1..Len(engine.rules) :
    LET rule == engine.rules[i]
    IN /\ rule.Action = ActionAdd
       /\ Len(rule.segments) >= 1
       /\ Last(rule.segments).Type = SegField /\ Last(rule.segments).Value = x.key
       /\ payloadOf(rule) = x.value
       /\ PathMatches(Front(rule.segments), x.at)

\* C39: an Add rule with the path s1...sn injects its field only into an
\* object whose path of keys and indices from the root matches s1...s(n-1)
\* segment by segment, whatever node the matcher is at when the object is
\* entered.
C39_InjectsIntoOwnObject ==
  Handled => \A x \in c.g.queued : OwnObject(x)

\* the same while no Remove or Set rule has fired
C39_NothingSkipped ==
  (Handled /\ c.g.fired = {}) => \A x \in c.g.queued : OwnObject(x)


====
